---- MODULE Spec2Model ----
(***************************************************************************)
(* Model of the CANFD-WIFI-100U-TCP device session (class CanfdWifi100uTcp) *)
(* and of the driver layer (class ZlgCanDriver) it calls.  The vendor DLL   *)
(* is the transport: every result it returns is an input of the action.    *)
(* Each action is one public method of the session, run to completion.     *)
(***************************************************************************)
EXTENDS Integers, Sequences, FiniteSets, TLC

(* ------------------------------------------------------------------ *)
(* Bounds of the model                                                 *)
(* ------------------------------------------------------------------ *)
\* handles the transport may return are 1..MaxHandle (0 is the invalid one)
MaxHandle == 1
\* longest message list handed to transmitBatch
MaxBatch == 1
\* longest item list handed to transmitQueue
MaxQueue == 1
\* largest maxCount given to receive
MaxRecv == 1

(* ------------------------------------------------------------------ *)
(* Program constants (driver/constants)                                *)
(* ------------------------------------------------------------------ *)
INVALID_DEVICE_HANDLE == 0
INVALID_CHANNEL_HANDLE == 0
CAN_MAX_DLEN == 8
CANFD_MAX_DLEN == 64
\* ZCAN_TRANSMIT_TYPE.NORMAL
TRANSMIT_NORMAL == 0
\* TX_FLAG.ECHO_FLAG (0x20) and TX_FLAG.DELAY_SEND_FLAG (0x80)
ECHO_FLAG == 32
DELAY_SEND_FLAG == 128
\* CANFD_FLAG.BRS, CANFD_FLAG.ESI
CANFD_BRS == 1
CANFD_ESI == 2
\* CAN_FLAG.SFF_MASK (0x7FF), CAN_FLAG.EFF_MASK (0x1FFFFFFF)
SFF_MASK == 2047
EFF_MASK == 536870911
\* CAN_FLAG.RTR_FLAG (0x40000000)
RTR_FLAG == 1073741824
\* CAN_FLAG.EFF_FLAG (0x80000000) as the 32-bit integer the bitwise
\* operators of the language see (ToInt32): -2^31
EFF_FLAG == (-2147483647) - 1

(* ------------------------------------------------------------------ *)
(* 32-bit bitwise operators (operands and results are signed 32-bit)   *)
(* ------------------------------------------------------------------ *)
Low31(x) == IF x >= 0 THEN x ELSE (x + 2147483647) + 1

FromBits(neg, low) == IF neg THEN (low - 2147483647) - 1 ELSE low

RECURSIVE AndNat(_, _)
AndNat(a, b) ==
  IF a = 0 \/ b = 0 THEN 0
  ELSE (a % 2) * (b % 2) + 2 * AndNat(a \div 2, b \div 2)

RECURSIVE OrNat(_, _)
OrNat(a, b) ==
  IF a = 0 THEN b
  ELSE IF b = 0 THEN a
  ELSE (IF a % 2 = 1 \/ b % 2 = 1 THEN 1 ELSE 0) + 2 * OrNat(a \div 2, b \div 2)

BitAnd(x, y) == FromBits(x < 0 /\ y < 0, AndNat(Low31(x), Low31(y)))

BitOr(x, y) == FromBits(x < 0 \/ y < 0, OrNat(Low31(x), Low31(y)))

(* ------------------------------------------------------------------ *)
(* State                                                               *)
(* ------------------------------------------------------------------ *)
VARIABLES
  deviceHandle,   \* CanfdWifi100uTcp.deviceHandle
  channelHandle,  \* CanfdWifi100uTcp.channelHandle
  echo,           \* config.echo: "true", "false" or "undefined"
  initialized,    \* ZlgCanDriver.initialized
  life,           \* history: "new" until open() first gets a device handle,
                  \* then what the last open()/close() that touched the
                  \* handles did: "opened", "closed" or "failed" (rolled back)
  lastOp          \* the last method call: what it was, how it ended, the
                  \* transport calls it made

vars == <<deviceHandle, channelHandle, echo, initialized, life, lastOp>>

Handles == 1..MaxHandle

\* largest balance the ledger of device handles counts to
MaxLedger == 2

EchoSettings == {"true", "false", "undefined"}

\* echo only when the option is given as true
echoEnabled_whenTrue == echo = "true"

\* this.config.echo !== false
echoEnabled == echo # "false"

(* ------------------------------------------------------------------ *)
(* Transport call log                                                  *)
(* ------------------------------------------------------------------ *)
\* one call of a DLL function: its name, the handle it was given, the
\* property path and value (set/get value), the auto-send structure (0 or
\* 1 element), the frames of a bulk send, and the value the DLL returned
Call(fn, handle, path, value, obj, frames, result) ==
  [fn |-> fn, handle |-> handle, path |-> path, value |-> value,
   obj |-> obj, frames |-> frames, result |-> result]

\* ZCAN_STATUS: OK = 1, anything else is a failure (0 = ERR)
STATUS_OK == 1
STATUS_ERR == 0

Status(ok) == IF ok THEN STATUS_OK ELSE STATUS_ERR

\* the record kept of a finished method call
\*   op      method name
\*   wasOpen isOpen() when the method was entered
\*   dev, ch the handles when the method was entered
\*   life    the value of life when the method was entered
\*   echo    config.echo when the method was entered
\*   init    the driver's initialized flag when the method was entered
\*   error   "none" when the method returned, else the error thrown
\*   ret     the number returned (-1 when the method returns nothing)
\*   msgs    the messages returned by receive
\*   arg     the arguments the method was given
\*   calls   the transport calls made, in order
\*   ledger  for each device handle the number of ZCAN_OpenDevice calls
\*           that returned it less the number of ZCAN_CloseDevice calls
\*           given it, over all calls so far (bal), and whether every
\*           ZCAN_CloseDevice call so far was given a handle that an
\*           earlier ZCAN_OpenDevice call returned and no later
\*           ZCAN_CloseDevice call was given (sound)
Record(op, arg, error, ret, msgs, calls, ledger) ==
  [op |-> op, wasOpen |-> (deviceHandle # INVALID_DEVICE_HANDLE
                            /\ channelHandle # INVALID_CHANNEL_HANDLE),
   dev |-> deviceHandle, ch |-> channelHandle, life |-> life,
   echo |-> echo, init |-> initialized,
   error |-> error, ret |-> ret, msgs |-> msgs, arg |-> arg, calls |-> calls,
   ledger |-> ledger]

\* the ledger of a session that made no transport call yet
NoLedger == [bal |-> [h \in Handles |-> 0], sound |-> TRUE]

\* the ledger after one more transport call; a balance stops counting at
\* MaxLedger and at -MaxLedger
AccountCall(ledger, c) ==
  IF c.fn = "ZCAN_OpenDevice" /\ c.result # INVALID_DEVICE_HANDLE
  THEN [ledger EXCEPT !.bal[c.result] =
                        IF @ < MaxLedger THEN @ + 1 ELSE @]
  ELSE IF c.fn = "ZCAN_CloseDevice"
  THEN IF c.handle \in Handles
       THEN [bal |-> [ledger.bal EXCEPT ![c.handle] =
                        IF @ > -MaxLedger THEN @ - 1 ELSE @],
             sound |-> ledger.sound /\ ledger.bal[c.handle] >= 1]
       ELSE [ledger EXCEPT !.sound = FALSE]
  ELSE ledger

\* the ledger after the calls of a method, in order
RECURSIVE Account(_, _)
Account(ledger, calls) ==
  IF calls = <<>> THEN ledger
  ELSE AccountCall(Account(ledger, SubSeq(calls, 1, Len(calls) - 1)),
                   calls[Len(calls)])

Done(op, arg, error, ret, msgs, calls) ==
  Record(op, arg, error, ret, msgs, calls, Account(lastOp.ledger, calls))

(* ------------------------------------------------------------------ *)
(* Device session: state management                                    *)
(* ------------------------------------------------------------------ *)
isOpen ==
  deviceHandle # INVALID_DEVICE_HANDLE /\ channelHandle # INVALID_CHANNEL_HANDLE

\* ensureOpen passes (does not throw)
ensureOpen_missing == TRUE

ensureOpen == isOpen

\* the error ensureOpen throws: ZlgCanError('Device', undefined, '设备未打开')
NotOpen == "DeviceNotOpen"

\* the echo property set after the protocol instead of before canfd_exp
OpenProps_echoLast ==
  <<[path |-> "0/ip", value |-> "config.ip"],
    [path |-> "0/work_port", value |-> "config.port"],
    [path |-> "0/work_mode", value |-> "TCP_CLIENT"],
    [path |-> "0/canfd_exp", value |-> "1"],
    [path |-> "0/protocol", value |-> "ALL_DATA"]>>
  \o (IF echo # "false"
      THEN <<[path |-> "0/set_device_tx_echo", value |-> "1"]>>
      ELSE <<>>)

\* the set-property steps of open(), in program order
OpenProps ==
  <<[path |-> "0/ip", value |-> "config.ip"],
    [path |-> "0/work_port", value |-> "config.port"],
    [path |-> "0/work_mode", value |-> "TCP_CLIENT"]>>
  \o (IF echoEnabled
      THEN <<[path |-> "0/set_device_tx_echo", value |-> "1"]>>
      ELSE <<>>)
  \o <<[path |-> "0/canfd_exp", value |-> "1"],
       [path |-> "0/protocol", value |-> "ALL_DATA"]>>

\* number of transport steps of the try block: the properties, then
\* init_channel, then start_channel
NOpenSteps == Len(OpenProps) + 2

\* the transport calls of the try block of open() when the first nOk steps
\* succeed and the next one (if any) fails; ch is the handle init_channel
\* returns when it succeeds
OpenTryCalls(dev, nOk, ch) ==
  LET nProps == Len(OpenProps)
      made == IF nOk < NOpenSteps THEN nOk + 1 ELSE NOpenSteps
      call(i) ==
        IF i <= nProps
        THEN Call("ZCAN_SetValue", dev, OpenProps[i].path, OpenProps[i].value,
                  <<>>, <<>>, Status(i <= nOk))
        ELSE IF i = nProps + 1
        THEN Call("ZCAN_InitCAN", dev, "", "", <<>>, <<>>,
                  IF i <= nOk THEN ch ELSE INVALID_CHANNEL_HANDLE)
        ELSE Call("ZCAN_StartCAN", ch, "", "", <<>>, <<>>, Status(i <= nOk))
  IN [i \in 1..made |-> call(i)]

\* the error the failing step throws
OpenTryError(nOk) ==
  IF nOk >= NOpenSteps THEN "none"
  ELSE IF nOk < Len(OpenProps) THEN "ZCAN_SetValue"
  ELSE IF nOk = Len(OpenProps) THEN "ZCAN_InitCAN"
  ELSE "ZCAN_StartCAN"

\* closeInternal: the handles it leaves and the transport calls it makes,
\* from handles dev/ch; closeOk is whether ZCAN_CloseDevice reports OK
closeInternal_noCall(dev, ch, closeOk) ==
  IF dev # INVALID_DEVICE_HANDLE
  THEN [dev |-> INVALID_DEVICE_HANDLE, ch |-> INVALID_CHANNEL_HANDLE,
        calls |-> <<>>]
  ELSE [dev |-> dev, ch |-> ch, calls |-> <<>>]

closeInternal_keepChannel(dev, ch, closeOk) ==
  IF dev # INVALID_DEVICE_HANDLE
  THEN [dev |-> INVALID_DEVICE_HANDLE, ch |-> ch,
        calls |-> <<Call("ZCAN_CloseDevice", dev, "", "", <<>>, <<>>,
                         Status(closeOk))>>]
  ELSE [dev |-> dev, ch |-> ch, calls |-> <<>>]

closeInternal_rethrow(dev, ch, closeOk) ==
  IF dev # INVALID_DEVICE_HANDLE
  THEN [dev |-> IF closeOk THEN INVALID_DEVICE_HANDLE ELSE dev,
        ch |-> IF closeOk THEN INVALID_CHANNEL_HANDLE ELSE ch,
        calls |-> <<Call("ZCAN_CloseDevice", dev, "", "", <<>>, <<>>,
                         Status(closeOk))>>]
  ELSE [dev |-> dev, ch |-> ch, calls |-> <<>>]

closeInternal(dev, ch, closeOk) ==
  IF dev # INVALID_DEVICE_HANDLE
  THEN [dev |-> INVALID_DEVICE_HANDLE, ch |-> INVALID_CHANNEL_HANDLE,
        calls |-> <<Call("ZCAN_CloseDevice", dev, "", "", <<>>, <<>>,
                         Status(closeOk))>>]
  ELSE [dev |-> dev, ch |-> ch, calls |-> <<>>]

\* the whole open sequence succeeded: no step of the try block threw
OpenSucceeds_ignoreStart(nOk) == nOk >= NOpenSteps - 1

OpenSucceeds(nOk) == nOk >= NOpenSteps

\* open() past the isOpen() check: initOk - the DLL loads; h - what
\* ZCAN_OpenDevice returns; nOk - how many steps of the try block succeed;
\* c - the channel handle ZCAN_InitCAN returns when it succeeds; closeOk -
\* result of the rollback close
openSequence(initOk, h, nOk, c, closeOk) ==
  IF ~initialized /\ ~initOk
  THEN \* driver.initialize() throws
       /\ lastOp' = Done("open", <<>>, "DriverInit", -1, <<>>, <<>>)
       /\ UNCHANGED <<deviceHandle, channelHandle, echo, initialized, life>>
  ELSE
    LET openCall == Call("ZCAN_OpenDevice", INVALID_DEVICE_HANDLE, "", "",
                         <<>>, <<>>, h)
    IN
    /\ initialized' = TRUE
    /\ echo' = echo
    /\ IF h = INVALID_DEVICE_HANDLE
       THEN \* driver.openDevice throws, the assignment does not happen
            /\ lastOp' = Done("open", <<>>, "ZCAN_OpenDevice", -1, <<>>,
                              <<openCall>>)
            /\ UNCHANGED <<deviceHandle, channelHandle, life>>
       ELSE IF OpenSucceeds(nOk)
       THEN /\ deviceHandle' = h
            /\ channelHandle' = c
            /\ life' = "opened"
            /\ lastOp' = Done("open", <<>>, "none", -1, <<>>,
                              <<openCall>> \o OpenTryCalls(h, nOk, c))
       ELSE \* catch: closeInternal(), rethrow
            LET chNow == IF nOk > Len(OpenProps) THEN c ELSE channelHandle
                r == closeInternal(h, chNow, closeOk)
            IN /\ deviceHandle' = r.dev
               /\ channelHandle' = r.ch
               /\ life' = "failed"
               /\ lastOp' = Done("open", <<>>, OpenTryError(nOk), -1, <<>>,
                                 <<openCall>> \o OpenTryCalls(h, nOk, c)
                                 \o r.calls)

\* open()
open_reopen(initOk, h, nOk, c, closeOk) ==
  openSequence(initOk, h, nOk, c, closeOk)

open(initOk, h, nOk, c, closeOk) ==
  IF isOpen
  THEN /\ lastOp' = Done("open", <<>>, "none", -1, <<>>, <<>>)
       /\ UNCHANGED <<deviceHandle, channelHandle, echo, initialized, life>>
  ELSE openSequence(initOk, h, nOk, c, closeOk)

\* close()
close_always(closeOk) ==
  /\ deviceHandle' = INVALID_DEVICE_HANDLE
  /\ channelHandle' = INVALID_CHANNEL_HANDLE
  /\ life' = IF isOpen THEN "closed" ELSE life
  /\ lastOp' = Done("close", <<>>, "none", -1, <<>>,
                    <<Call("ZCAN_CloseDevice", deviceHandle, "", "", <<>>, <<>>,
                           Status(closeOk))>>)
  /\ UNCHANGED <<echo, initialized>>

close(closeOk) ==
  IF ~isOpen
  THEN /\ lastOp' = Done("close", <<>>, "none", -1, <<>>, <<>>)
       /\ UNCHANGED <<deviceHandle, channelHandle, echo, initialized, life>>
  ELSE LET r == closeInternal(deviceHandle, channelHandle, closeOk)
       IN /\ deviceHandle' = r.dev
          /\ channelHandle' = r.ch
          /\ life' = "closed"
          /\ lastOp' = Done("close", <<>>, "none", -1, <<>>, r.calls)
          /\ UNCHANGED <<echo, initialized>>

(* ------------------------------------------------------------------ *)
(* Messages and the frame codec                                        *)
(* ------------------------------------------------------------------ *)
\* a payload of n bytes
Bytes(n) == [i \in 1..n |-> i]

\* a CanMessage / CanFdMessage object; hasBrs / hasEsi say whether the
\* object carries the brs / esi property at all
Message(id, data, isExtended, isRemote, hasBrs, brs, hasEsi, esi) ==
  [id |-> id, data |-> data, isExtended |-> isExtended, isRemote |-> isRemote,
   hasBrs |-> hasBrs, brs |-> brs, hasEsi |-> hasEsi, esi |-> esi]

\* the messages callers hand to the sending methods
Messages ==
  { Message(305419896, Bytes(8), TRUE, FALSE, FALSE, FALSE, FALSE, FALSE),
    Message(2047, Bytes(9), FALSE, TRUE, FALSE, FALSE, FALSE, FALSE),
    Message(512, Bytes(12), FALSE, FALSE, TRUE, TRUE, FALSE, FALSE),
    Message(513, <<>>, TRUE, FALSE, FALSE, FALSE, TRUE, FALSE),
    Message(514, Bytes(65), FALSE, FALSE, TRUE, TRUE, TRUE, TRUE) }

\* 'brs' in msg || 'esi' in msg
isCanFdMessage_byValue(msg) == msg.brs \/ msg.esi

isCanFdMessage(msg) == msg.hasBrs \/ msg.hasEsi

\* msg.id with the EFF / RTR flag bits or-ed in
EncodeCanId(msg) ==
  LET c1 == IF msg.isExtended THEN BitOr(msg.id, EFF_FLAG) ELSE msg.id
  IN IF msg.isRemote THEN BitOr(c1, RTR_FLAG) ELSE c1

toZcanTransmitData(msg, transmitType, echoArg) ==
  [frame |-> [can_id |-> EncodeCanId(msg),
              can_dlc |-> Len(msg.data),
              __pad |-> IF echoArg THEN ECHO_FLAG ELSE 0,
              data |-> msg.data],
   transmit_type |-> transmitType]

toZcanTransmitFdData(msg, transmitType, echoArg) ==
  LET f1 == IF msg.brs THEN CANFD_BRS ELSE 0
      f2 == IF msg.esi THEN BitOr(f1, CANFD_ESI) ELSE f1
      f3 == IF echoArg THEN BitOr(f2, ECHO_FLAG) ELSE f2
  IN [frame |-> [can_id |-> EncodeCanId(msg),
                 len |-> Len(msg.data),
                 flags |-> f3,
                 data |-> msg.data],
      transmit_type |-> transmitType]

(* ------------------------------------------------------------------ *)
(* Driver layer: bulk send                                             *)
(* ------------------------------------------------------------------ *)
\* frame.f || 0 for an optional numeric field
FieldOr0(frame, f) == IF f \in DOMAIN frame THEN frame[f] ELSE 0

\* Array.from(d).concat(new Array(n - d.length).fill(0)).slice(0, n),
\* defined when d.length <= n
PadTo(d, n) == [i \in 1..n |-> IF i <= Len(d) THEN d[i] ELSE 0]

\* the outcome of a driver call: the error thrown ("none" when it
\* returns), the value returned and the DLL calls made
DriverResult(error, ret, calls) == [error |-> error, ret |-> ret, calls |-> calls]

\* ZlgCanDriver.transmit: new Array(8 - length) throws a RangeError for a
\* payload longer than 8 bytes, before the DLL is called; sent is what
\* ZCAN_Transmit returns
driver_transmit(ch, data, sent) ==
  IF \E i \in 1..Len(data) : Len(data[i].frame.data) > CAN_MAX_DLEN
  THEN DriverResult("RangeError", -1, <<>>)
  ELSE LET frames ==
             [i \in 1..Len(data) |->
               [frame |-> [can_id |-> data[i].frame.can_id,
                           can_dlc |-> data[i].frame.can_dlc,
                           __pad |-> FieldOr0(data[i].frame, "__pad"),
                           __res0 |-> FieldOr0(data[i].frame, "__res0"),
                           __res1 |-> FieldOr0(data[i].frame, "__res1"),
                           data |-> PadTo(data[i].frame.data, CAN_MAX_DLEN)],
                transmit_type |-> data[i].transmit_type]]
       IN DriverResult("none", sent,
                       <<Call("ZCAN_Transmit", ch, "", "", <<>>, frames, sent)>>)

\* ZlgCanDriver.transmitFD
driver_transmitFD(ch, data, sent) ==
  IF \E i \in 1..Len(data) : Len(data[i].frame.data) > CANFD_MAX_DLEN
  THEN DriverResult("RangeError", -1, <<>>)
  ELSE LET frames ==
             [i \in 1..Len(data) |->
               [frame |-> [can_id |-> data[i].frame.can_id,
                           len |-> data[i].frame.len,
                           flags |-> FieldOr0(data[i].frame, "flags"),
                           __res0 |-> FieldOr0(data[i].frame, "__res0"),
                           __res1 |-> FieldOr0(data[i].frame, "__res1"),
                           data |-> PadTo(data[i].frame.data, CANFD_MAX_DLEN)],
                transmit_type |-> data[i].transmit_type]]
       IN DriverResult("none", sent,
                       <<Call("ZCAN_TransmitFD", ch, "", "", <<>>, frames, sent)>>)

(* ------------------------------------------------------------------ *)
(* Device session: sending                                             *)
(* ------------------------------------------------------------------ *)
\* a data-plane method leaves the handles, the configuration and the
\* driver alone
Finish(op, arg, error, ret, msgs, calls) ==
  /\ lastOp' = Done(op, arg, error, ret, msgs, calls)
  /\ UNCHANGED <<deviceHandle, channelHandle, echo, initialized, life>>

\* the error of transmit once the driver returned sent
TransmitError_zeroOnly(r, kindError) ==
  IF r.error # "none" THEN r.error
  ELSE IF r.ret = 0 THEN kindError ELSE "none"

TransmitError(r, kindError) ==
  IF r.error # "none" THEN r.error
  ELSE IF r.ret # 1 THEN kindError ELSE "none"

\* transmit(message): sent is what the DLL bulk send returns
transmit(message, sent) ==
  IF ~ensureOpen
  THEN Finish("transmit", <<message>>, NotOpen, -1, <<>>, <<>>)
  ELSE IF isCanFdMessage(message)
  THEN LET data == toZcanTransmitFdData(message, TRANSMIT_NORMAL, echoEnabled)
           r == driver_transmitFD(channelHandle, <<data>>, sent)
       IN Finish("transmit", <<message>>,
                 TransmitError(r, "TransmitFailedCANFD"), -1, <<>>, r.calls)
  ELSE LET data == toZcanTransmitData(message, TRANSMIT_NORMAL, echoEnabled)
           r == driver_transmit(channelHandle, <<data>>, sent)
       IN Finish("transmit", <<message>>,
                 TransmitError(r, "TransmitFailedCAN"), -1, <<>>, r.calls)

\* s back to front
Reverse(s) == [i \in 1..Len(s) |-> s[Len(s) + 1 - i]]

\* the partition built back to front
SelectMsgs_reversed(s, fd) ==
  Reverse(SelectSeq(s, LAMBDA m : isCanFdMessage(m) = fd))

\* the elements of s that satisfy Test, in order
SelectMsgs(s, fd) == SelectSeq(s, LAMBDA m : isCanFdMessage(m) = fd)

\* a partition is sent when it is not empty (length > 0)
ShouldSend_always(list) == TRUE

ShouldSend(list) == Len(list) > 0

\* transmitBatch(messages): sentCan / sentFd are what the two bulk sends
\* return
transmitBatch(messages, sentCan, sentFd) ==
  IF ~ensureOpen
  THEN Finish("transmitBatch", messages, NotOpen, -1, <<>>, <<>>)
  ELSE
    LET canMessages == SelectMsgs(messages, FALSE)
        canfdMessages == SelectMsgs(messages, TRUE)
        rc == IF ShouldSend(canMessages)
              THEN driver_transmit(channelHandle,
                     [i \in 1..Len(canMessages) |->
                        toZcanTransmitData(canMessages[i], TRANSMIT_NORMAL,
                                           echoEnabled)],
                     sentCan)
              ELSE DriverResult("none", 0, <<>>)
        rf == IF rc.error = "none" /\ ShouldSend(canfdMessages)
              THEN driver_transmitFD(channelHandle,
                     [i \in 1..Len(canfdMessages) |->
                        toZcanTransmitFdData(canfdMessages[i], TRANSMIT_NORMAL,
                                             echoEnabled)],
                     sentFd)
              ELSE DriverResult("none", 0, <<>>)
        error == IF rc.error # "none" THEN rc.error ELSE rf.error
    IN Finish("transmitBatch", messages, error,
              IF error = "none" THEN rc.ret + rf.ret ELSE -1, <<>>,
              rc.calls \o rf.calls)

\* a queue item: a message and its delay in ms
QueueItem(message, delay) == [message |-> message, delay |-> delay]

\* the queue items callers hand to transmitQueue
QueueItems ==
  { QueueItem(Message(305419896, Bytes(8), TRUE, FALSE, FALSE, FALSE, FALSE, FALSE), 300),
    QueueItem(Message(2047, Bytes(9), FALSE, TRUE, FALSE, FALSE, FALSE, FALSE), 0),
    QueueItem(Message(512, Bytes(12), FALSE, FALSE, TRUE, TRUE, FALSE, FALSE), 65535),
    QueueItem(Message(513, <<>>, TRUE, FALSE, FALSE, FALSE, TRUE, FALSE), 300) }

SelectItems(s, fd) == SelectSeq(s, LAMBDA it : isCanFdMessage(it.message) = fd)

\* item.delay & 0xFF and (item.delay >> 8) & 0xFF
DelayLow(delay) == BitAnd(delay, 255)

\* the high byte taken without the shift
DelayHigh_noShift(delay) == BitAnd(delay, 255)

DelayHigh(delay) == BitAnd(delay \div 256, 255)

\* the classic frame of a queue item: the base encoding with __pad,
\* __res0 and __res1 overwritten
QueueCanData(item) ==
  LET data == toZcanTransmitData(item.message, TRANSMIT_NORMAL, FALSE)
      pad == IF echoEnabled THEN BitOr(DELAY_SEND_FLAG, ECHO_FLAG)
             ELSE DELAY_SEND_FLAG
  IN [frame |-> [can_id |-> data.frame.can_id,
                 can_dlc |-> data.frame.can_dlc,
                 __pad |-> pad,
                 __res0 |-> DelayLow(item.delay),
                 __res1 |-> DelayHigh(item.delay),
                 data |-> data.frame.data],
      transmit_type |-> data.transmit_type]

\* the flags of the base encoding replaced by the queue and echo bits
QueueCanfdData_overwrite(item) ==
  LET data == toZcanTransmitFdData(item.message, TRANSMIT_NORMAL, FALSE)
      flags == IF echoEnabled THEN BitOr(DELAY_SEND_FLAG, ECHO_FLAG)
               ELSE DELAY_SEND_FLAG
  IN [frame |-> [can_id |-> data.frame.can_id,
                 len |-> data.frame.len,
                 flags |-> flags,
                 __res0 |-> DelayLow(item.delay),
                 __res1 |-> DelayHigh(item.delay),
                 data |-> data.frame.data],
      transmit_type |-> data.transmit_type]

\* the FD frame of a queue item: the base flags with the queue and echo
\* bits or-ed in
QueueCanfdData(item) ==
  LET data == toZcanTransmitFdData(item.message, TRANSMIT_NORMAL, FALSE)
      f1 == BitOr(data.frame.flags, DELAY_SEND_FLAG)
      flags == IF echoEnabled THEN BitOr(f1, ECHO_FLAG) ELSE f1
  IN [frame |-> [can_id |-> data.frame.can_id,
                 len |-> data.frame.len,
                 flags |-> flags,
                 __res0 |-> DelayLow(item.delay),
                 __res1 |-> DelayHigh(item.delay),
                 data |-> data.frame.data],
      transmit_type |-> data.transmit_type]

\* transmitQueue that gives up the FD send once the classic send was
\* accepted in part
transmitQueue_stopOnPartial(items, sentCan, sentFd) ==
  IF ~ensureOpen
  THEN Finish("transmitQueue", items, NotOpen, -1, <<>>, <<>>)
  ELSE
    LET canItems == SelectItems(items, FALSE)
        canfdItems == SelectItems(items, TRUE)
        rc == IF Len(canItems) > 0
              THEN driver_transmit(channelHandle,
                     [i \in 1..Len(canItems) |-> QueueCanData(canItems[i])],
                     sentCan)
              ELSE DriverResult("none", 0, <<>>)
        rf == IF rc.error = "none" /\ rc.ret = Len(canItems)
                 /\ Len(canfdItems) > 0
              THEN driver_transmitFD(channelHandle,
                     [i \in 1..Len(canfdItems) |-> QueueCanfdData(canfdItems[i])],
                     sentFd)
              ELSE DriverResult("none", 0, <<>>)
        error == IF rc.error # "none" THEN rc.error ELSE rf.error
    IN Finish("transmitQueue", items, error,
              IF error = "none" THEN rc.ret + rf.ret ELSE -1, <<>>,
              rc.calls \o rf.calls)

\* transmitQueue(items)
transmitQueue(items, sentCan, sentFd) ==
  IF ~ensureOpen
  THEN Finish("transmitQueue", items, NotOpen, -1, <<>>, <<>>)
  ELSE
    LET canItems == SelectItems(items, FALSE)
        canfdItems == SelectItems(items, TRUE)
        rc == IF Len(canItems) > 0
              THEN driver_transmit(channelHandle,
                     [i \in 1..Len(canItems) |-> QueueCanData(canItems[i])],
                     sentCan)
              ELSE DriverResult("none", 0, <<>>)
        rf == IF rc.error = "none" /\ Len(canfdItems) > 0
              THEN driver_transmitFD(channelHandle,
                     [i \in 1..Len(canfdItems) |-> QueueCanfdData(canfdItems[i])],
                     sentFd)
              ELSE DriverResult("none", 0, <<>>)
        error == IF rc.error # "none" THEN rc.error ELSE rf.error
    IN Finish("transmitQueue", items, error,
              IF error = "none" THEN rc.ret + rf.ret ELSE -1, <<>>,
              rc.calls \o rf.calls)

(* ------------------------------------------------------------------ *)
(* Driver layer: properties                                            *)
(* ------------------------------------------------------------------ *)
\* Array.from(d).concat(new Array(n).fill(0)).slice(0, n)
PadOrCut(d, n) == [i \in 1..n |-> IF i <= Len(d) THEN d[i] ELSE 0]

\* encodeAutoTransmitObj
encodeAutoTransmitObj(value) ==
  [enable |-> value.enable, index |-> value.index, interval |-> value.interval,
   obj |-> [frame |-> [can_id |-> value.obj.frame.can_id,
                       can_dlc |-> value.obj.frame.can_dlc,
                       __pad |-> FieldOr0(value.obj.frame, "__pad"),
                       __res0 |-> FieldOr0(value.obj.frame, "__res0"),
                       __res1 |-> FieldOr0(value.obj.frame, "__res1"),
                       data |-> PadOrCut(value.obj.frame.data, CAN_MAX_DLEN)],
            transmit_type |-> value.obj.transmit_type]]

\* encodeAutoTransmitFdObj
encodeAutoTransmitFdObj(value) ==
  [enable |-> value.enable, index |-> value.index, interval |-> value.interval,
   obj |-> [frame |-> [can_id |-> value.obj.frame.can_id,
                       len |-> value.obj.frame.len,
                       flags |-> FieldOr0(value.obj.frame, "flags"),
                       __res0 |-> FieldOr0(value.obj.frame, "__res0"),
                       __res1 |-> FieldOr0(value.obj.frame, "__res1"),
                       data |-> PadOrCut(value.obj.frame.data, CANFD_MAX_DLEN)],
            transmit_type |-> value.obj.transmit_type]]

\* ZlgCanDriver.setValue with a string value
driver_setValue(dev, path, value, ok) ==
  DriverResult(IF ok THEN "none" ELSE "ZCAN_SetValue", -1,
               <<Call("ZCAN_SetValue", dev, path, value, <<>>, <<>>, Status(ok))>>)

\* ZlgCanDriver.setValue with an auto-send structure
driver_setValueObj(dev, path, value, ok) ==
  LET buffer == IF "can_dlc" \in DOMAIN value.obj.frame
                THEN encodeAutoTransmitObj(value)
                ELSE encodeAutoTransmitFdObj(value)
  IN DriverResult(IF ok THEN "none" ELSE "ZCAN_SetValue", -1,
                  <<Call("ZCAN_SetValue", dev, path, "", <<buffer>>, <<>>,
                         Status(ok))>>)

\* what ZCAN_GetValue can answer: a null pointer, a pointer to a string,
\* or a pointer that does not decode as a string; a string is a sequence of
\* characters
GetValueAnswers ==
  { [ptr |-> 0, decodes |-> FALSE, str |-> <<>>],
    [ptr |-> 4096, decodes |-> TRUE, str |-> <<"1", "2">>],
    [ptr |-> 4096, decodes |-> TRUE, str |-> <<"a">>],
    [ptr |-> 4096, decodes |-> FALSE, str |-> <<>>] }

\* ZlgCanDriver.getValue for a path that is not get_bus_usage: the value
\* returned is a string or the pointer as a number
driver_getValue(dev, path, ans) ==
  [error |-> IF ans.ptr = 0 THEN "ZCAN_GetValue" ELSE "none",
   type |-> IF ans.decodes THEN "string" ELSE "number",
   num |-> ans.ptr,
   str |-> ans.str,
   calls |-> <<Call("ZCAN_GetValue", dev, path, "", <<>>, <<>>, ans.ptr)>>]

Digits == <<"0", "1", "2", "3", "4", "5", "6", "7", "8", "9">>

IsDigit(c) == \E d \in 1..10 : Digits[d] = c

DigitVal(c) == (CHOOSE d \in 1..10 : Digits[d] = c) - 1

\* the value of the leading decimal digits of s from position i on
RECURSIVE LeadingDigits(_, _, _)
LeadingDigits(s, i, acc) ==
  IF i <= Len(s) /\ IsDigit(s[i])
  THEN LeadingDigits(s, i + 1, acc * 10 + DigitVal(s[i]))
  ELSE acc

\* parseInt(s, 10) || 0 for an unsigned string: NaN (no leading digit)
\* gives 0
ParseIntOr0(s) == LeadingDigits(s, 1, 0)

\* typeof result === 'number' ? result : parseInt(String(result), 10) || 0
NumberOf(r) == IF r.type = "number" THEN r.num ELSE ParseIntOr0(r.str)

(* ------------------------------------------------------------------ *)
(* Device session: buffer, auto-send and queue management              *)
(* ------------------------------------------------------------------ *)
\* clearBuffer(): ok - ZCAN_ClearBuffer reports OK
clearBuffer(ok) ==
  IF ~ensureOpen
  THEN Finish("clearBuffer", <<>>, NotOpen, -1, <<>>, <<>>)
  ELSE Finish("clearBuffer", <<>>,
              IF ok THEN "none" ELSE "ZCAN_ClearBuffer", -1, <<>>,
              <<Call("ZCAN_ClearBuffer", channelHandle, "", "", <<>>, <<>>,
                     Status(ok))>>)

MessageTypes == {"can", "canfd", "all"}

\* getBufferCount(type): nCan / nFd - what ZCAN_GetReceiveNum returns for
\* the two data types
getBufferCount(type, nCan, nFd) ==
  IF ~ensureOpen
  THEN Finish("getBufferCount", <<[type |-> type]>>, NotOpen, -1, <<>>, <<>>)
  ELSE
    LET wantCan == type = "can" \/ type = "all"
        wantFd == type = "canfd" \/ type = "all"
        c1 == IF wantCan
              THEN <<Call("ZCAN_GetReceiveNum", channelHandle, "", "CAN",
                          <<>>, <<>>, nCan)>>
              ELSE <<>>
        c2 == IF wantFd
              THEN <<Call("ZCAN_GetReceiveNum", channelHandle, "", "CANFD",
                          <<>>, <<>>, nFd)>>
              ELSE <<>>
    IN Finish("getBufferCount", <<[type |-> type]>>, "none",
              (IF wantCan THEN nCan ELSE 0) + (IF wantFd THEN nFd ELSE 0),
              <<>>, c1 \o c2)

\* an AutoSendConfig
AutoSendConfig(index, enable, interval, message) ==
  [index |-> index, enable |-> enable, interval |-> interval,
   message |-> message]

AutoSendConfigs ==
  {AutoSendConfig(0, TRUE, 100, m) : m \in Messages}
  \cup {AutoSendConfig(1, FALSE, 20, m) : m \in Messages}

\* addAutoSend with the slot index in the property path
addAutoSend_indexPath(config, ok) ==
  IF ~ensureOpen
  THEN Finish("addAutoSend", <<config>>, NotOpen, -1, <<>>, <<>>)
  ELSE
    LET obj == [enable |-> IF config.enable THEN 1 ELSE 0,
                index |-> config.index,
                interval |-> config.interval,
                obj |-> IF isCanFdMessage(config.message)
                        THEN toZcanTransmitFdData(config.message,
                                                  TRANSMIT_NORMAL, echoEnabled)
                        ELSE toZcanTransmitData(config.message,
                                                TRANSMIT_NORMAL, echoEnabled)]
        r == driver_setValueObj(deviceHandle, (IF config.index = 0 THEN "0/auto_send" ELSE "1/auto_send"), obj, ok)
    IN Finish("addAutoSend", <<config>>, r.error, -1, <<>>, r.calls)

\* addAutoSend(config)
addAutoSend(config, ok) ==
  IF ~ensureOpen
  THEN Finish("addAutoSend", <<config>>, NotOpen, -1, <<>>, <<>>)
  ELSE
    LET obj == [enable |-> IF config.enable THEN 1 ELSE 0,
                index |-> config.index,
                interval |-> config.interval,
                obj |-> IF isCanFdMessage(config.message)
                        THEN toZcanTransmitFdData(config.message,
                                                  TRANSMIT_NORMAL, echoEnabled)
                        ELSE toZcanTransmitData(config.message,
                                                TRANSMIT_NORMAL, echoEnabled)]
        r == driver_setValueObj(deviceHandle, "0/auto_send", obj, ok)
    IN Finish("addAutoSend", <<config>>, r.error, -1, <<>>, r.calls)

\* applyAutoSend(), clearAutoSend() and clearDelayQueue(): one set-property
\* call with the value '0'
Trigger(op, path, ok) ==
  IF ~ensureOpen
  THEN Finish(op, <<>>, NotOpen, -1, <<>>, <<>>)
  ELSE LET r == driver_setValue(deviceHandle, path, "0", ok)
       IN Finish(op, <<>>, r.error, -1, <<>>, r.calls)

applyAutoSend(ok) == Trigger("applyAutoSend", "0/apply_auto_send", ok)

clearAutoSend(ok) == Trigger("clearAutoSend", "0/clear_auto_send", ok)

clearDelayQueue(ok) == Trigger("clearDelayQueue", "0/clear_delay_send_queue", ok)

\* a method that reads one number through getValue
ReadNumber(op, arg, path, ans) ==
  IF ~ensureOpen
  THEN Finish(op, arg, NotOpen, -1, <<>>, <<>>)
  ELSE LET r == driver_getValue(deviceHandle, path, ans)
       IN Finish(op, arg, r.error,
                 IF r.error = "none" THEN NumberOf(r) ELSE -1, <<>>, r.calls)

\* getAutoSendCount(isFd)
getAutoSendCount(isFd, ans) ==
  ReadNumber("getAutoSendCount", <<[isFd |-> isFd]>>,
             IF isFd THEN "0/get_auto_send_canfd_count/1"
             ELSE "0/get_auto_send_can_count/1", ans)

\* getAvailableTxCount()
getAvailableTxCount(ans) ==
  ReadNumber("getAvailableTxCount", <<>>, "0/get_device_available_tx_count/1",
             ans)

\* the path of getAutoSendData for the indexes of the model
AutoSendDataPath(index, isFd) ==
  IF isFd
  THEN (IF index = 0 THEN "0/get_auto_send_canfd_data/0"
        ELSE "0/get_auto_send_canfd_data/1")
  ELSE (IF index = 0 THEN "0/get_auto_send_can_data/0"
        ELSE "0/get_auto_send_can_data/1")

\* getAutoSendData without its try / catch
getAutoSendData_propagate(index, isFd, ans) ==
  IF ~ensureOpen
  THEN Finish("getAutoSendData", <<[index |-> index, isFd |-> isFd]>>,
              NotOpen, -1, <<>>, <<>>)
  ELSE LET r == driver_getValue(deviceHandle, AutoSendDataPath(index, isFd), ans)
       IN Finish("getAutoSendData", <<[index |-> index, isFd |-> isFd]>>,
                 r.error, -1, <<>>, r.calls)

\* getAutoSendData(index, isFd): the driver returns a string or a number
\* for this path, never an object, so the result is null (msgs is empty)
\* when the driver returns; a driver error is caught and gives null too
getAutoSendData(index, isFd, ans) ==
  IF ~ensureOpen
  THEN Finish("getAutoSendData", <<[index |-> index, isFd |-> isFd]>>,
              NotOpen, -1, <<>>, <<>>)
  ELSE LET r == driver_getValue(deviceHandle, AutoSendDataPath(index, isFd), ans)
       IN Finish("getAutoSendData", <<[index |-> index, isFd |-> isFd]>>,
                 "none", -1, <<>>, r.calls)

(* ------------------------------------------------------------------ *)
(* Device session: receiving                                           *)
(* ------------------------------------------------------------------ *)
Min(a, b) == IF a <= b THEN a ELSE b

\* as many bytes as the length field says, read past the end of the array
SliceTo_padded(data, n) == [i \in 1..n |-> IF i <= Len(data) THEN data[i] ELSE 0]

\* the whole data array, whatever the length field says
SliceTo_whole(data, n) == data

\* Array.from(data).slice(0, n) for n >= 0
SliceTo(data, n) == SubSeq(data, 1, Min(n, Len(data)))

\* a receive envelope is a frame and a timestamp.  can_id is an unsigned
\* 32-bit number in the program; the model keeps the 32-bit integer the
\* bitwise operators make of it (ToInt32).
\* the extended bit tested with > 0 instead of !== 0
fromZcanReceiveData_signTest(data) ==
  LET canId == data.frame.can_id
      isExtended == BitAnd(canId, EFF_FLAG) > 0
      isRemote == BitAnd(canId, RTR_FLAG) # 0
  IN [id |-> BitAnd(canId, IF isExtended THEN EFF_MASK ELSE SFF_MASK),
      data |-> SliceTo(data.frame.data, data.frame.can_dlc),
      isExtended |-> isExtended,
      isRemote |-> isRemote,
      timestamp |-> data.timestamp]

fromZcanReceiveData(data) ==
  LET canId == data.frame.can_id
      isExtended == BitAnd(canId, EFF_FLAG) # 0
      isRemote == BitAnd(canId, RTR_FLAG) # 0
  IN [id |-> BitAnd(canId, IF isExtended THEN EFF_MASK ELSE SFF_MASK),
      data |-> SliceTo(data.frame.data, data.frame.can_dlc),
      isExtended |-> isExtended,
      isRemote |-> isRemote,
      timestamp |-> data.timestamp]

\* brs / esi read by comparing the whole flags byte
fromZcanReceiveFdData_exactFlags(data) ==
  LET canId == data.frame.can_id
      isExtended == BitAnd(canId, EFF_FLAG) # 0
      isRemote == BitAnd(canId, RTR_FLAG) # 0
      flags == data.frame.flags
  IN [id |-> BitAnd(canId, IF isExtended THEN EFF_MASK ELSE SFF_MASK),
      data |-> SliceTo(data.frame.data, data.frame.len),
      isExtended |-> isExtended,
      isRemote |-> isRemote,
      timestamp |-> data.timestamp,
      brs |-> flags = CANFD_BRS,
      esi |-> flags = CANFD_ESI]

fromZcanReceiveFdData(data) ==
  LET canId == data.frame.can_id
      isExtended == BitAnd(canId, EFF_FLAG) # 0
      isRemote == BitAnd(canId, RTR_FLAG) # 0
      flags == data.frame.flags
  IN [id |-> BitAnd(canId, IF isExtended THEN EFF_MASK ELSE SFF_MASK),
      data |-> SliceTo(data.frame.data, data.frame.len),
      isExtended |-> isExtended,
      isRemote |-> isRemote,
      timestamp |-> data.timestamp,
      brs |-> BitAnd(flags, CANFD_BRS) # 0,
      esi |-> BitAnd(flags, CANFD_ESI) # 0]

\* the classic envelopes the transport may return
RxCan ==
  { [frame |-> [can_id |-> 291, can_dlc |-> 3,
                data |-> PadTo(Bytes(3), CAN_MAX_DLEN)],
     timestamp |-> 20],
    [frame |-> [can_id |-> BitOr(305419896, EFF_FLAG), can_dlc |-> 8,
                data |-> Bytes(8)],
     timestamp |-> 10] }

\* the FD envelopes the transport may return
RxFd ==
  { [frame |-> [can_id |-> 512, len |-> 12, flags |-> CANFD_BRS,
                data |-> PadTo(Bytes(12), CANFD_MAX_DLEN)],
     timestamp |-> 10],
    [frame |-> [can_id |-> BitOr(513, RTR_FLAG), len |-> 64, flags |-> CANFD_ESI,
                data |-> Bytes(64)],
     timestamp |-> 5] }

\* the sort key of the comparator: a.timestamp || 0
SortKey(m) == m.timestamp

\* m put in front of the elements with an equal timestamp
RECURSIVE InsertByTimestamp_beforeTies(_, _)
InsertByTimestamp_beforeTies(s, m) ==
  IF s = <<>> THEN <<m>>
  ELSE IF SortKey(s[Len(s)]) - SortKey(m) < 0 THEN Append(s, m)
  ELSE Append(InsertByTimestamp_beforeTies(SubSeq(s, 1, Len(s) - 1), m),
              s[Len(s)])

\* m put into the sorted sequence s behind every element that does not
\* compare greater
RECURSIVE InsertByTimestamp(_, _)
InsertByTimestamp(s, m) ==
  IF s = <<>> THEN <<m>>
  ELSE IF SortKey(s[Len(s)]) - SortKey(m) <= 0 THEN Append(s, m)
  ELSE Append(InsertByTimestamp(SubSeq(s, 1, Len(s) - 1), m), s[Len(s)])

\* the result left in the order the two buffers were read
SortByTimestamp_none(s) == s

\* result.sort((a, b) => ta - tb): a stable sort by timestamp
RECURSIVE SortByTimestamp(_)
SortByTimestamp(s) ==
  IF s = <<>> THEN <<>>
  ELSE InsertByTimestamp(SortByTimestamp(SubSeq(s, 1, Len(s) - 1)), s[Len(s)])

\* receive that sorts the result for every type
receive_sortAlways(maxCount, timeout, type, canData, canfdData) ==
  LET arg == <<[maxCount |-> maxCount, timeout |-> timeout, type |-> type]>>
  IN
  IF ~ensureOpen
  THEN Finish("receive", arg, NotOpen, -1, <<>>, <<>>)
  ELSE
    LET wantCan == type = "can" \/ type = "all"
        wantFd == type = "canfd" \/ type = "all"
        c1 == IF wantCan
              THEN <<Call("ZCAN_Receive", channelHandle, "", "", <<>>, canData,
                          Len(canData))>>
              ELSE <<>>
        c2 == IF wantFd
              THEN <<Call("ZCAN_ReceiveFD", channelHandle, "", "", <<>>,
                          canfdData, Len(canfdData))>>
              ELSE <<>>
        r1 == IF wantCan
              THEN [i \in 1..Len(canData) |-> fromZcanReceiveData(canData[i])]
              ELSE <<>>
        r2 == IF wantFd
              THEN [i \in 1..Len(canfdData) |-> fromZcanReceiveFdData(canfdData[i])]
              ELSE <<>>
        result == SortByTimestamp(r1 \o r2)
    IN Finish("receive", arg, "none", -1, result, c1 \o c2)

\* receive(maxCount, timeout, type): canData / canfdData are the envelopes
\* ZCAN_Receive / ZCAN_ReceiveFD deliver
receive(maxCount, timeout, type, canData, canfdData) ==
  LET arg == <<[maxCount |-> maxCount, timeout |-> timeout, type |-> type]>>
  IN
  IF ~ensureOpen
  THEN Finish("receive", arg, NotOpen, -1, <<>>, <<>>)
  ELSE
    LET wantCan == type = "can" \/ type = "all"
        wantFd == type = "canfd" \/ type = "all"
        c1 == IF wantCan
              THEN <<Call("ZCAN_Receive", channelHandle, "", "", <<>>, canData,
                          Len(canData))>>
              ELSE <<>>
        c2 == IF wantFd
              THEN <<Call("ZCAN_ReceiveFD", channelHandle, "", "", <<>>,
                          canfdData, Len(canfdData))>>
              ELSE <<>>
        r1 == IF wantCan
              THEN [i \in 1..Len(canData) |-> fromZcanReceiveData(canData[i])]
              ELSE <<>>
        r2 == IF wantFd
              THEN [i \in 1..Len(canfdData) |-> fromZcanReceiveFdData(canfdData[i])]
              ELSE <<>>
        result == IF type = "all" THEN SortByTimestamp(r1 \o r2) ELSE r1 \o r2
    IN Finish("receive", arg, "none", -1, result, c1 \o c2)

(* ------------------------------------------------------------------ *)
(* Specification                                                       *)
(* ------------------------------------------------------------------ *)
Init ==
  /\ deviceHandle = INVALID_DEVICE_HANDLE
  /\ channelHandle = INVALID_CHANNEL_HANDLE
  /\ echo \in EchoSettings
  /\ initialized = FALSE
  /\ life = "new"
  /\ lastOp = [op |-> "new", wasOpen |-> FALSE,
               dev |-> INVALID_DEVICE_HANDLE, ch |-> INVALID_CHANNEL_HANDLE,
               life |-> "new", echo |-> echo, init |-> FALSE,
               error |-> "none", ret |-> -1, msgs |-> <<>>, arg |-> <<>>,
               calls |-> <<>>, ledger |-> NoLedger]

\* the transport results open() does not look at are not enumerated
Open ==
  \E initOk \in (IF isOpen \/ initialized THEN {TRUE} ELSE BOOLEAN) :
    \E h \in (IF isOpen \/ ~initOk THEN {INVALID_DEVICE_HANDLE} ELSE 0..MaxHandle) :
      \E nOk \in (IF h = INVALID_DEVICE_HANDLE THEN {0} ELSE 0..NOpenSteps) :
        \E c \in (IF nOk > Len(OpenProps) THEN Handles ELSE {1}),
           closeOk \in (IF h # INVALID_DEVICE_HANDLE /\ nOk < NOpenSteps
                        THEN BOOLEAN ELSE {TRUE}) :
          open(initOk, h, nOk, c, closeOk)

Close == \E closeOk \in (IF isOpen THEN BOOLEAN ELSE {TRUE}) : close(closeOk)

\* message lists of length 0..n
MsgLists(n) == UNION {[1..k -> Messages] : k \in 0..n}

Transmit == \E m \in Messages, sent \in 0..2 : transmit(m, sent)

TransmitBatch ==
  \E ms \in MsgLists(MaxBatch) :
    \E sentCan \in 0..Len(SelectMsgs(ms, FALSE)),
       sentFd \in 0..Len(SelectMsgs(ms, TRUE)) :
      transmitBatch(ms, sentCan, sentFd)

\* queue item lists of length 0..n
ItemLists(n) == UNION {[1..k -> QueueItems] : k \in 0..n}

TransmitQueue ==
  \E its \in ItemLists(MaxQueue) :
    \E sentCan \in 0..Len(SelectItems(its, FALSE)),
       sentFd \in 0..Len(SelectItems(its, TRUE)) :
      transmitQueue(its, sentCan, sentFd)

ClearBuffer == \E ok \in BOOLEAN : clearBuffer(ok)

GetBufferCount ==
  \E type \in MessageTypes, nCan \in 0..1, nFd \in 0..1 :
    getBufferCount(type, nCan, nFd)

AddAutoSend == \E config \in AutoSendConfigs, ok \in BOOLEAN : addAutoSend(config, ok)

ApplyAutoSend == \E ok \in BOOLEAN : applyAutoSend(ok)

ClearAutoSend == \E ok \in BOOLEAN : clearAutoSend(ok)

ClearDelayQueue == \E ok \in BOOLEAN : clearDelayQueue(ok)

GetAutoSendCount ==
  \E isFd \in BOOLEAN, ans \in GetValueAnswers : getAutoSendCount(isFd, ans)

GetAutoSendData ==
  \E index \in 0..1, isFd \in BOOLEAN, ans \in GetValueAnswers :
    getAutoSendData(index, isFd, ans)

GetAvailableTxCount == \E ans \in GetValueAnswers : getAvailableTxCount(ans)

\* envelope lists of length 0..n over the set S
EnvLists(S, n) == UNION {[1..k -> S] : k \in 0..n}

\* the transport delivers at most maxCount envelopes of each kind, and is
\* only asked for the kinds the type names
Receive ==
  \E maxCount \in 1..MaxRecv, type \in MessageTypes :
    \E canData \in (IF type = "canfd" THEN {<<>>} ELSE EnvLists(RxCan, maxCount)),
       canfdData \in (IF type = "can" THEN {<<>>} ELSE EnvLists(RxFd, maxCount)) :
      receive(maxCount, 0, type, canData, canfdData)

Next ==
  \/ Open
  \/ Close
  \/ Receive
  \/ Transmit
  \/ TransmitBatch
  \/ TransmitQueue
  \/ ClearBuffer
  \/ GetBufferCount
  \/ AddAutoSend
  \/ ApplyAutoSend
  \/ ClearAutoSend
  \/ GetAutoSendCount
  \/ GetAutoSendData
  \/ GetAvailableTxCount
  \/ ClearDelayQueue

Spec == Init /\ [][Next]_vars

(* ------------------------------------------------------------------ *)
(* Specification of mixed batches                                      *)
(* ------------------------------------------------------------------ *)
\* longest message list handed to transmitBatch in SpecBatch
MaxMixed == 3

\* the messages of mixed batches: two classic and two FD messages that fit
\* their frame, and an FD message that does not
BatchMessages ==
  { Message(305419896, Bytes(8), TRUE, FALSE, FALSE, FALSE, FALSE, FALSE),
    Message(291, Bytes(2), FALSE, TRUE, FALSE, FALSE, FALSE, FALSE),
    Message(512, Bytes(12), FALSE, FALSE, TRUE, TRUE, FALSE, FALSE),
    Message(513, <<>>, TRUE, FALSE, FALSE, FALSE, TRUE, FALSE),
    Message(514, Bytes(65), FALSE, FALSE, TRUE, FALSE, TRUE, TRUE) }

\* a sending or receiving method leaves the session as it found it, so a
\* second call in a row sees what the first one saw: the specifications of
\* long inputs take one such call after each open() or close()
SessionOps == {"new", "open", "close"}

\* transmitBatch of a list of up to MaxMixed messages; a session that is
\* not open refuses the call before it looks at the list
TransmitMixed ==
  /\ lastOp.op \in SessionOps
  /\ \E ms \in (IF isOpen
                THEN UNION {[1..k -> BatchMessages] : k \in 0..MaxMixed}
                ELSE {<<>>}) :
       \E sentCan \in 0..Len(SelectMsgs(ms, FALSE)),
          sentFd \in 0..Len(SelectMsgs(ms, TRUE)) :
         transmitBatch(ms, sentCan, sentFd)

\* open() with a transport that grants every step
OpenGranted == open(TRUE, 1, NOpenSteps, 1, TRUE)

\* close() with a transport that closes the device
CloseGranted == close(TRUE)

NextBatch ==
  \/ OpenGranted
  \/ CloseGranted
  \/ TransmitMixed

SpecBatch == Init /\ [][NextBatch]_vars

(* ------------------------------------------------------------------ *)
(* Specification of a batch and a queue of the same messages           *)
(* ------------------------------------------------------------------ *)
\* longest message list sent as a batch and then as a queue in SpecQueue
MaxPair == 2

\* the delays of queue items: both bytes zero, the low byte only, both
\* bytes, the largest delay
QueueDelays == {0, 255, 300, 65535}

\* transmitBatch of a list of up to MaxPair messages, the transport taking
\* every frame
BatchFirst ==
  /\ lastOp.op \in SessionOps
  /\ \E ms \in (IF isOpen
                THEN UNION {[1..k -> BatchMessages] : k \in 0..MaxPair}
                ELSE {<<>>}) :
       transmitBatch(ms, Len(SelectMsgs(ms, FALSE)), Len(SelectMsgs(ms, TRUE)))

\* transmitQueue of the messages the batch before it sent, each with a
\* delay, on the same session and with the same transport
QueueSame ==
  /\ lastOp.op = "transmitBatch"
  /\ \E delays \in [1..Len(lastOp.arg) -> QueueDelays] :
       LET items == [i \in 1..Len(lastOp.arg) |->
                      QueueItem(lastOp.arg[i], delays[i])]
       IN transmitQueue(items, Len(SelectItems(items, FALSE)),
                        Len(SelectItems(items, TRUE)))

NextQueue ==
  \/ OpenGranted
  \/ CloseGranted
  \/ BatchFirst
  \/ QueueSame

SpecQueue == Init /\ [][NextQueue]_vars

(* ------------------------------------------------------------------ *)
(* Specification of receiving from both buffers                        *)
(* ------------------------------------------------------------------ *)
\* largest maxCount given to receive in SpecRecv
MaxRecvMany == 2

\* the envelopes of the two buffers: those of RxCan and RxFd and one more
\* of each kind, with timestamps that tie across the kinds and a zero one
RxCanMany ==
  RxCan \cup { [frame |-> [can_id |-> BitOr(2047, RTR_FLAG), can_dlc |-> 0,
                           data |-> PadTo(<<>>, CAN_MAX_DLEN)],
                timestamp |-> 0] }

RxFdMany ==
  RxFd \cup { [frame |-> [can_id |-> BitOr(536870911, EFF_FLAG), len |-> 8,
                          flags |-> BitOr(CANFD_BRS, CANFD_ESI),
                          data |-> PadTo(Bytes(8), CANFD_MAX_DLEN)],
               timestamp |-> 20] }

\* receive with up to maxCount envelopes delivered from each buffer the
\* type names; a session that is not open refuses the call before it
\* reads a buffer
ReceiveMany ==
  /\ lastOp.op \in SessionOps
  /\ \E maxCount \in 1..MaxRecvMany, type \in MessageTypes :
       \E canData \in (IF isOpen /\ type # "canfd"
                       THEN EnvLists(RxCanMany, maxCount) ELSE {<<>>}),
          canfdData \in (IF isOpen /\ type # "can"
                         THEN EnvLists(RxFdMany, maxCount) ELSE {<<>>}) :
         receive(maxCount, 0, type, canData, canfdData)

NextRecv ==
  \/ OpenGranted
  \/ CloseGranted
  \/ ReceiveMany

SpecRecv == Init /\ [][NextRecv]_vars

(* ------------------------------------------------------------------ *)
(* Specification of the session life cycle                             *)
(* ------------------------------------------------------------------ *)
NextLife ==
  \/ Open
  \/ Close

SpecLife == Init /\ [][NextLife]_vars

(* ------------------------------------------------------------------ *)
(* Specification of the frame codec                                    *)
(* ------------------------------------------------------------------ *)
\* ids of standard and of extended messages
StandardIds == {0, 291, 2047}

ExtendedIds == {0, 2048, 305419896, 536870911}

\* payloads of classic and of FD messages, by length
ClassicPayloads == {Bytes(0), Bytes(3), Bytes(8)}

FdPayloads == {Bytes(0), Bytes(8), Bytes(12), Bytes(64)}

\* the brs / esi properties of an FD message: at least one is present, an
\* absent one reads as false
FdFields ==
  { [hasBrs |-> TRUE, brs |-> b, hasEsi |-> TRUE, esi |-> e] : b, e \in BOOLEAN }
  \cup { [hasBrs |-> TRUE, brs |-> TRUE, hasEsi |-> FALSE, esi |-> FALSE],
          [hasBrs |-> FALSE, brs |-> FALSE, hasEsi |-> TRUE, esi |-> TRUE] }

IdsOf(ext) == IF ext THEN ExtendedIds ELSE StandardIds

\* the messages the codec is applied to
CodecMessages ==
  { Message(id, d, ext, rtr, FALSE, FALSE, FALSE, FALSE) :
      id \in IdsOf(TRUE) \cup IdsOf(FALSE), d \in ClassicPayloads,
      ext \in BOOLEAN, rtr \in BOOLEAN }
  \cup
  { Message(id, d, ext, rtr, f.hasBrs, f.brs, f.hasEsi, f.esi) :
      id \in IdsOf(TRUE) \cup IdsOf(FALSE), d \in FdPayloads,
      ext \in BOOLEAN, rtr \in BOOLEAN, f \in FdFields }

\* a message whose id is valid for its frame format
ValidId(m) == m.id \in IdsOf(m.isExtended)

\* the uint32 field of a frame structure read as a number: the unsigned
\* value of the 32-bit word x, kept as its two 16-bit halves
Uint32(x) ==
  [hi |-> (Low31(x) \div 65536) + (IF x < 0 THEN 32768 ELSE 0),
   lo |-> Low31(x) % 65536]

\* ToInt32 of an unsigned 32-bit number: what a bitwise operator makes of
\* its operand
ToInt32(u) ==
  IF u.hi >= 32768
  THEN (u.hi - 65536) * 65536 + u.lo
  ELSE u.hi * 65536 + u.lo

\* the receive envelope that holds the frame a bulk send was given, with
\* can_id as the number canId
Envelope(frame, canId) ==
  IF "can_dlc" \in DOMAIN frame
  THEN [frame |-> [can_id |-> canId, can_dlc |-> frame.can_dlc,
                   data |-> frame.data],
        timestamp |-> 0]
  ELSE [frame |-> [can_id |-> canId, len |-> frame.len, flags |-> frame.flags,
                   data |-> frame.data],
        timestamp |-> 0]

CodecInit ==
  /\ deviceHandle = INVALID_DEVICE_HANDLE
  /\ channelHandle = INVALID_CHANNEL_HANDLE
  /\ echo \in EchoSettings
  /\ initialized = FALSE
  /\ life = "new"
  /\ \E m \in {c \in CodecMessages : ValidId(c)} :
       lastOp = Record("message", <<m>>, "none", -1, <<>>, <<>>, NoLedger)

\* the message is encoded with the session's echo default and laid out as
\* the frame structure of the bulk send
EncodeFrame ==
  /\ lastOp.op = "message"
  /\ LET m == lastOp.arg[1]
         r == IF isCanFdMessage(m)
              THEN driver_transmitFD(channelHandle,
                     <<toZcanTransmitFdData(m, TRANSMIT_NORMAL, echoEnabled)>>, 1)
              ELSE driver_transmit(channelHandle,
                     <<toZcanTransmitData(m, TRANSMIT_NORMAL, echoEnabled)>>, 1)
     IN Finish("encode", lastOp.arg, r.error, -1, <<>>, r.calls)

\* the frame is decoded twice: with can_id carried as the signed 32-bit
\* value the encoder's | produced, and with can_id carried as the unsigned
\* number the uint32 field delivers
DecodeFrame ==
  /\ lastOp.op = "encode"
  /\ LET frame == lastOp.calls[1].frames[1].frame
         signed == Envelope(frame, frame.can_id)
         unsigned == Envelope(frame, ToInt32(Uint32(frame.can_id)))
         decode(e) == IF "can_dlc" \in DOMAIN frame
                      THEN fromZcanReceiveData(e)
                      ELSE fromZcanReceiveFdData(e)
     IN Finish("decode", lastOp.arg, "none", -1,
               <<decode(signed), decode(unsigned)>>, lastOp.calls)

NextCodec ==
  \/ EncodeFrame
  \/ DecodeFrame

SpecCodec == CodecInit /\ [][NextCodec]_vars

(* ------------------------------------------------------------------ *)
(* Specification of the decoders of received frames                    *)
(* ------------------------------------------------------------------ *)
\* the largest value of the uint8 length field of a frame
MaxLenField == 255

\* the low 29 bits of the can_id words a transport may deliver
RxIdBits == {0, 291, 2047, 2048, 305419896, 536870911}

\* the can_id words: every combination of bits 29, 30 and 31 over the low
\* bits, as the 32-bit integer the bitwise operators make of the uint32
RxWords ==
  { ToInt32([hi |-> (low \div 65536) + 8192 * b29 + 16384 * b30 + 32768 * b31,
             lo |-> low % 65536]) :
      low \in RxIdBits, b29 \in {0, 1}, b30 \in {0, 1}, b31 \in {0, 1} }

\* the length fields: within both capacities, beyond the classic and
\* beyond the FD capacity
RxLengths == {0, 3, CAN_MAX_DLEN, 9, CANFD_MAX_DLEN, 65, 200, MaxLenField}

\* the flags bytes: BRS and ESI with and without the echo bit, the
\* delayed-queue bit and the bits the program gives no meaning to
RxFlags ==
  {0, CANFD_BRS, CANFD_ESI, CANFD_BRS + CANFD_ESI, ECHO_FLAG,
   ECHO_FLAG + DELAY_SEND_FLAG + CANFD_BRS, DELAY_SEND_FLAG + CANFD_ESI,
   MaxLenField - CANFD_BRS, MaxLenField}

\* the envelopes ZCAN_Receive / ZCAN_ReceiveFD may fill in: the data
\* array always has the capacity of the frame structure
RxEnvelopes ==
  { [frame |-> [can_id |-> w, can_dlc |-> n, data |-> Bytes(CAN_MAX_DLEN)],
     timestamp |-> 7] : w \in RxWords, n \in RxLengths }
  \cup
  { [frame |-> [can_id |-> w, len |-> n, flags |-> f,
                data |-> Bytes(CANFD_MAX_DLEN)],
     timestamp |-> 7] : w \in RxWords, n \in {3, 12, CANFD_MAX_DLEN, 200},
                        f \in RxFlags }

DecodeInit ==
  /\ deviceHandle = INVALID_DEVICE_HANDLE
  /\ channelHandle = INVALID_CHANNEL_HANDLE
  /\ echo \in EchoSettings
  /\ initialized = FALSE
  /\ life = "new"
  /\ \E e \in RxEnvelopes :
       lastOp = Record("frame", <<e>>, "none", -1, <<>>, <<>>, NoLedger)

\* the envelope is decoded by the decoder of its kind
DecodeReceived ==
  /\ lastOp.op = "frame"
  /\ LET e == lastOp.arg[1]
     IN Finish("fromZcan", lastOp.arg, "none", -1,
               <<IF "can_dlc" \in DOMAIN e.frame
                 THEN fromZcanReceiveData(e)
                 ELSE fromZcanReceiveFdData(e)>>, <<>>)

NextDecode ==
  \/ DecodeReceived

SpecDecode == DecodeInit /\ [][NextDecode]_vars

(* ------------------------------------------------------------------ *)
(* Specification of the sending methods with the echo default         *)
(* ------------------------------------------------------------------ *)
\* highest auto-send slot index in SpecSend
MaxAuto == 2

\* the intervals of auto-send entries, in ms
AutoIntervals == {0, 20, 65535}

\* transmit of one message, the transport taking the frame or not
TransmitOne ==
  /\ lastOp.op \in SessionOps
  /\ \E m \in BatchMessages, sent \in 0..1 : transmit(m, sent)

\* longest payload of the FD messages of TransmitFdLength
MaxFdLen == 13

\* transmit of an FD message with a payload of any length up to MaxFdLen,
\* the transport taking the frame
TransmitFdLength ==
  /\ lastOp.op \in SessionOps
  /\ \E n \in 0..MaxFdLen, brs \in BOOLEAN :
       transmit(Message(515, Bytes(n), FALSE, FALSE, TRUE, brs, FALSE, FALSE), 1)

\* addAutoSend of an entry for any slot, enabled or not
AutoSendOne ==
  /\ lastOp.op \in SessionOps
  /\ \E index \in 0..MaxAuto, enable \in BOOLEAN, interval \in AutoIntervals,
        m \in BatchMessages, ok \in BOOLEAN :
       addAutoSend(AutoSendConfig(index, enable, interval, m), ok)

NextSend ==
  \/ OpenGranted
  \/ CloseGranted
  \/ TransmitOne
  \/ BatchFirst
  \/ TransmitFdLength
  \/ AutoSendOne

SpecSend == Init /\ [][NextSend]_vars

(* ------------------------------------------------------------------ *)
(* Specification of mixed batches and queues                           *)
(* ------------------------------------------------------------------ *)
\* longest list of SpecOrder
MaxOrder == 3

\* a classic and an FD message that fit their frame, and one of each kind
\* that does not
OrderMessages ==
  { Message(291, Bytes(2), FALSE, FALSE, FALSE, FALSE, FALSE, FALSE),
    Message(292, Bytes(9), FALSE, FALSE, FALSE, FALSE, FALSE, FALSE),
    Message(512, Bytes(12), FALSE, FALSE, TRUE, TRUE, FALSE, FALSE),
    Message(514, Bytes(65), FALSE, FALSE, TRUE, FALSE, TRUE, TRUE) }

OrderLists == UNION {[1..k -> OrderMessages] : k \in 0..MaxOrder}

\* transmitBatch of a list in any interleaving of the kinds, the
\* transport accepting any number of the frames of each bulk send
BatchOrdered ==
  /\ lastOp.op \in SessionOps
  /\ \E ms \in (IF isOpen THEN OrderLists ELSE {<<>>}) :
       \E sentCan \in 0..Len(SelectMsgs(ms, FALSE)),
          sentFd \in 0..Len(SelectMsgs(ms, TRUE)) :
         transmitBatch(ms, sentCan, sentFd)

\* transmitQueue of such a list, every item with a delay of 300 ms
QueueOrdered ==
  /\ lastOp.op \in SessionOps
  /\ \E ms \in (IF isOpen THEN OrderLists ELSE {<<>>}) :
       LET items == [i \in 1..Len(ms) |-> QueueItem(ms[i], 300)]
       IN \E sentCan \in 0..Len(SelectItems(items, FALSE)),
             sentFd \in 0..Len(SelectItems(items, TRUE)) :
            transmitQueue(items, sentCan, sentFd)

NextOrder ==
  \/ OpenGranted
  \/ CloseGranted
  \/ BatchOrdered
  \/ QueueOrdered

SpecOrder == Init /\ [][NextOrder]_vars

(* ------------------------------------------------------------------ *)
(* Properties                                                          *)
(* ------------------------------------------------------------------ *)
\* the methods guarded by ensureOpen
GuardedOps ==
  {"receive", "transmit", "transmitBatch", "transmitQueue", "clearBuffer",
   "getBufferCount", "addAutoSend", "applyAutoSend", "clearAutoSend",
   "getAutoSendCount", "getAutoSendData", "getAvailableTxCount",
   "clearDelayQueue"}

\* number of calls of the DLL function fn in a call log
CountCalls(calls, fn) == Cardinality({i \in DOMAIN calls : calls[i].fn = fn})

\* the DLL reported success for the call
CallOk(call) ==
  IF call.fn \in {"ZCAN_OpenDevice", "ZCAN_InitCAN"}
  THEN call.result # 0
  ELSE call.result = STATUS_OK

BothInvalid ==
  deviceHandle = INVALID_DEVICE_HANDLE /\ channelHandle = INVALID_CHANNEL_HANDLE

\* the last method left the handles, the configuration, the driver flag
\* and the lifecycle history as it found them
SessionUnchanged ==
  /\ deviceHandle = lastOp.dev
  /\ channelHandle = lastOp.ch
  /\ echo = lastOp.echo
  /\ initialized = lastOp.init
  /\ life = lastOp.life

\* C1: a guarded method called while the session is not open fails with
\* the device-not-open error, makes no transport call and changes nothing
\* of the session (handles, configuration, driver).
C1_NotOpenRejected ==
  (lastOp.op \in GuardedOps /\ ~lastOp.wasOpen)
  => /\ lastOp.error = NotOpen
     /\ lastOp.calls = <<>>
     /\ SessionUnchanged
     /\ ~isOpen

\* a guarded method was refused on a session whose open() had failed
C1_Witness ==
  /\ lastOp.op = "transmitQueue"
  /\ ~lastOp.wasOpen
  /\ lastOp.life = "failed"
  /\ lastOp.error = NotOpen

\* C2: when open() fails after ZCAN_OpenDevice returned a handle, the
\* session is closed with both handles invalid and the call log holds
\* exactly one ZCAN_CloseDevice, for the handle that was acquired.
C2_RollbackClosesOnce ==
  (/\ lastOp.op = "open"
   /\ lastOp.error # "none"
   /\ Len(lastOp.calls) >= 1
   /\ lastOp.calls[1].fn = "ZCAN_OpenDevice"
   /\ lastOp.calls[1].result # INVALID_DEVICE_HANDLE)
  => /\ ~isOpen
     /\ BothInvalid
     /\ CountCalls(lastOp.calls, "ZCAN_CloseDevice") = 1
     /\ lastOp.calls[Len(lastOp.calls)].fn = "ZCAN_CloseDevice"
     /\ lastOp.calls[Len(lastOp.calls)].handle = lastOp.calls[1].result

\* open() failed at channel start and rolled back
C2_Witness ==
  /\ lastOp.op = "open"
  /\ lastOp.error = "ZCAN_StartCAN"
  /\ CountCalls(lastOp.calls, "ZCAN_CloseDevice") = 1

\* C3: open() on a closed session leaves it open only if it returned
\* without error after the whole sequence (open_device, every property,
\* init_channel, start_channel) was called and every call succeeded; when
\* the driver initialisation or open_device fails the error is thrown,
\* the session stays closed and no close_device call is made.
C3_OpenOnlyOnFullSuccess ==
  (lastOp.op = "open" /\ ~lastOp.wasOpen)
  => /\ isOpen => /\ lastOp.error = "none"
                  /\ Len(lastOp.calls) = 1 + NOpenSteps
                  /\ \A i \in DOMAIN lastOp.calls : CallOk(lastOp.calls[i])
                  /\ lastOp.calls[1].fn = "ZCAN_OpenDevice"
                  /\ lastOp.calls[Len(lastOp.calls) - 1].fn = "ZCAN_InitCAN"
                  /\ lastOp.calls[Len(lastOp.calls)].fn = "ZCAN_StartCAN"
     /\ lastOp.error # "none" => ~isOpen /\ BothInvalid
     /\ lastOp.error \in {"DriverInit", "ZCAN_OpenDevice"}
          => CountCalls(lastOp.calls, "ZCAN_CloseDevice") = 0

\* open() on a closed session succeeded
C3_Witness ==
  /\ lastOp.op = "open"
  /\ ~lastOp.wasOpen
  /\ isOpen
  /\ lastOp.error = "none"

\* C4: open() on an open session makes no transport call, leaves both
\* handles (and the rest of the session) as they were and returns without
\* error.
C4_OpenTwiceNoop ==
  (lastOp.op = "open" /\ lastOp.wasOpen)
  => /\ lastOp.calls = <<>>
     /\ lastOp.error = "none"
     /\ SessionUnchanged
     /\ isOpen

\* open() was called on an open session
C4_Witness == lastOp.op = "open" /\ lastOp.wasOpen /\ lastOp.life = "opened"

\* C5: close() on an open session whose ZCAN_CloseDevice call fails
\* returns without error and leaves both handles invalid.
C5_CloseSwallowsFailure ==
  (/\ lastOp.op = "close"
   /\ lastOp.wasOpen
   /\ \E i \in DOMAIN lastOp.calls :
        lastOp.calls[i].fn = "ZCAN_CloseDevice" /\ ~CallOk(lastOp.calls[i]))
  => /\ lastOp.error = "none"
     /\ BothInvalid
     /\ ~isOpen

\* close() ran on an open session and the transport close failed
C5_Witness ==
  /\ lastOp.op = "close"
  /\ lastOp.wasOpen
  /\ Len(lastOp.calls) = 1
  /\ lastOp.calls[1].fn = "ZCAN_CloseDevice"
  /\ lastOp.calls[1].result = STATUS_ERR

\* C6: close() on a closed session returns without error, makes no
\* transport call and leaves the session as it was, closed.
C6_CloseIdempotent ==
  (lastOp.op = "close" /\ ~lastOp.wasOpen)
  => /\ lastOp.error = "none"
     /\ lastOp.calls = <<>>
     /\ SessionUnchanged
     /\ ~isOpen

\* a second close() right after a close() of an open session
C6_Witness ==
  /\ lastOp.op = "close"
  /\ ~lastOp.wasOpen
  /\ lastOp.life = "closed"
  /\ lastOp.calls = <<>>

\* C7: a new session is closed, and between operations the device handle
\* is valid exactly when the channel handle is valid, so that isOpen()
\* holds exactly when either of them is valid.
C7_HandlesAgree ==
  /\ lastOp.op = "new" => ~isOpen /\ BothInvalid
  /\ (deviceHandle # INVALID_DEVICE_HANDLE) <=> (channelHandle # INVALID_CHANNEL_HANDLE)
  /\ isOpen <=> (deviceHandle # INVALID_DEVICE_HANDLE)
  /\ isOpen <=> (channelHandle # INVALID_CHANNEL_HANDLE)

\* open() had obtained a channel handle, failed at channel start and
\* rolled back
C7_Witness ==
  /\ lastOp.op = "open"
  /\ lastOp.error = "ZCAN_StartCAN"
  /\ BothInvalid

\* C8: an open() that follows a close() and returns without error has run
\* the whole open sequence again, starting with a new ZCAN_OpenDevice
\* call, and leaves the session open with the handles of that run.
C8_ReopenAfterClose ==
  (lastOp.op = "open" /\ lastOp.life = "closed" /\ lastOp.error = "none")
  => /\ isOpen
     /\ Len(lastOp.calls) = 1 + NOpenSteps
     /\ lastOp.calls[1].fn = "ZCAN_OpenDevice"
     /\ deviceHandle = lastOp.calls[1].result
     /\ channelHandle = lastOp.calls[Len(lastOp.calls) - 1].result
     /\ \A i \in DOMAIN lastOp.calls : CallOk(lastOp.calls[i])

\* the session was opened, closed and opened again
C8_Witness ==
  /\ lastOp.op = "open"
  /\ lastOp.life = "closed"
  /\ life = "opened"
  /\ isOpen

\* the message carries the brs or the esi property
CarriesFdField(m) == m.hasBrs \/ m.hasEsi

\* the payload fits the frame of the message's kind
FitsFrame(m) ==
  Len(m.data) <= (IF CarriesFdField(m) THEN CANFD_MAX_DLEN ELSE CAN_MAX_DLEN)

\* transmit made one bulk send of the message's kind with one frame, and
\* failed exactly when the transport did not report 1, with the error that
\* names the kind
OneSendOfKind(op) ==
  LET m == op.arg[1]
      fd == CarriesFdField(m)
  IN /\ Len(op.calls) = 1
     /\ op.calls[1].fn = (IF fd THEN "ZCAN_TransmitFD" ELSE "ZCAN_Transmit")
     /\ op.calls[1].handle = op.ch
     /\ Len(op.calls[1].frames) = 1
     /\ (op.error = "none") <=> (op.calls[1].result = 1)
     /\ op.error # "none"
          => op.error = (IF fd THEN "TransmitFailedCANFD" ELSE "TransmitFailedCAN")

\* C9 as claimed: every transmit on an open session makes one bulk send of
\* the matching kind and fails only with the transmit-failed error.
C9_Original ==
  (lastOp.op = "transmit" /\ lastOp.wasOpen) => OneSendOfKind(lastOp)

\* C9: transmit on an open session of a message whose payload fits the
\* frame of its kind makes exactly one bulk send of the matching kind with
\* one frame, succeeds iff the transport reports 1 and otherwise fails with
\* the transmit-failed error of that kind; a longer payload is refused
\* with a RangeError before any transport call.
C9_TransmitOneFrame ==
  (lastOp.op = "transmit" /\ lastOp.wasOpen)
  => IF FitsFrame(lastOp.arg[1])
     THEN OneSendOfKind(lastOp)
     ELSE lastOp.calls = <<>> /\ lastOp.error = "RangeError"

\* a fitting FD message was sent and the transport reported 2 frames
C9_Witness ==
  /\ lastOp.op = "transmit"
  /\ lastOp.wasOpen
  /\ FitsFrame(lastOp.arg[1])
  /\ CarriesFdField(lastOp.arg[1])
  /\ Len(lastOp.calls) = 1
  /\ lastOp.calls[1].result = 2
  /\ lastOp.error = "TransmitFailedCANFD"

\* C10: transmitBatch of the empty list on an open session returns 0 and
\* makes no transport call.
C10_EmptyBatch ==
  (lastOp.op = "transmitBatch" /\ lastOp.wasOpen /\ Len(lastOp.arg) = 0)
  => /\ lastOp.error = "none"
     /\ lastOp.ret = 0
     /\ lastOp.calls = <<>>

\* transmitBatch([]) ran on an open session
C10_Witness ==
  /\ lastOp.op = "transmitBatch"
  /\ lastOp.wasOpen
  /\ Len(lastOp.arg) = 0
  /\ lastOp.ret = 0

\* the messages of a list that carry an FD field (fd) or none (~fd), in
\* the order of the list
KindOf(ms, fd) == SelectSeq(ms, LAMBDA m : CarriesFdField(m) = fd)

AllFit(ms) == \A i \in DOMAIN ms : FitsFrame(ms[i])

\* the frames of a bulk send are those of the messages of list, one for
\* one and in order: id, extended bit, length and payload
FramesCarry(call, list) ==
  /\ Len(call.frames) = Len(list)
  /\ \A i \in DOMAIN list :
       LET f == call.frames[i].frame
       IN /\ BitAnd(f.can_id, EFF_MASK) = list[i].id
          /\ (f.can_id < 0) = list[i].isExtended
          /\ (IF "can_dlc" \in DOMAIN f THEN f.can_dlc ELSE f.len)
               = Len(list[i].data)
          /\ SubSeq(f.data, 1, Len(list[i].data)) = list[i].data

\* the batch made one bulk send per non-empty partition, classic first,
\* carrying the partition in input order, raised no error and returned the
\* sum of what the transport reported
BatchSendsPartitions(op) ==
  LET can == KindOf(op.arg, FALSE)
      fd == KindOf(op.arg, TRUE)
      nCan == IF Len(can) > 0 THEN 1 ELSE 0
      nFd == IF Len(fd) > 0 THEN 1 ELSE 0
  IN /\ op.error = "none"
     /\ Len(op.calls) = nCan + nFd
     /\ (nCan = 1) => (/\ op.calls[1].fn = "ZCAN_Transmit"
                       /\ op.calls[1].handle = op.ch
                       /\ FramesCarry(op.calls[1], can))
     /\ (nFd = 1) => (/\ op.calls[nCan + 1].fn = "ZCAN_TransmitFD"
                      /\ op.calls[nCan + 1].handle = op.ch
                      /\ FramesCarry(op.calls[nCan + 1], fd))
     /\ op.ret = (IF nCan = 1 THEN op.calls[1].result ELSE 0)
                 + (IF nFd = 1 THEN op.calls[nCan + 1].result ELSE 0)

\* the batch stopped with a RangeError at the first partition that holds a
\* payload longer than its frame: no bulk send for that partition nor for
\* the one after it, and nothing returned
BatchStopsAtOversize(op) ==
  LET can == KindOf(op.arg, FALSE)
  IN /\ op.error = "RangeError"
     /\ op.ret = -1
     /\ IF AllFit(can) /\ Len(can) > 0
        THEN /\ Len(op.calls) = 1
             /\ op.calls[1].fn = "ZCAN_Transmit"
             /\ FramesCarry(op.calls[1], can)
        ELSE op.calls = <<>>

\* C11 as claimed: every transmitBatch on an open session makes one bulk
\* send per non-empty partition and returns the sum of the accepted counts.
C11_Original ==
  (lastOp.op = "transmitBatch" /\ lastOp.wasOpen) => BatchSendsPartitions(lastOp)

\* C11: transmitBatch on an open session, when every payload fits the frame
\* of its kind, splits the list into classic and FD messages keeping the
\* input order inside each partition, makes exactly one bulk send for each
\* non-empty partition (classic first) and none for an empty one, returns
\* the sum of the counts the transport reported and raises no error
\* whatever those counts are; when a payload does not fit, it stops with a
\* RangeError before the bulk send of that message's partition.
C11_BatchPartitions ==
  (lastOp.op = "transmitBatch" /\ lastOp.wasOpen)
  => IF AllFit(lastOp.arg)
     THEN BatchSendsPartitions(lastOp)
     ELSE BatchStopsAtOversize(lastOp)

\* a batch of classic, FD, classic with two different classic messages was
\* sent; the transport took one of the two classic frames and the FD frame
C11_Witness ==
  /\ lastOp.op = "transmitBatch"
  /\ lastOp.wasOpen
  /\ Len(lastOp.arg) = 3
  /\ AllFit(lastOp.arg)
  /\ ~CarriesFdField(lastOp.arg[1])
  /\ CarriesFdField(lastOp.arg[2])
  /\ ~CarriesFdField(lastOp.arg[3])
  /\ lastOp.arg[1] # lastOp.arg[3]
  /\ Len(lastOp.calls) = 2
  /\ lastOp.calls[1].result = 1
  /\ lastOp.calls[2].result = 1
  /\ lastOp.error = "none"
  /\ lastOp.ret = 2

\* the decoded message d has the id, payload and flags of the message m
SameMessage(d, m) ==
  /\ d.id = m.id
  /\ d.data = m.data
  /\ d.isExtended = m.isExtended
  /\ d.isRemote = m.isRemote
  /\ CarriesFdField(m) => (d.brs = m.brs /\ d.esi = m.esi)
  /\ ~CarriesFdField(m) => ("brs" \notin DOMAIN d /\ "esi" \notin DOMAIN d)

\* C12: for every message with a valid id and a payload within the
\* capacity of its kind, decoding the frame that encoding produced gives
\* back the id, the payload, is_extended and is_remote (and brs and esi for
\* FD), with the classic and with the FD codec, whatever the echo setting.
C12_RoundTrip ==
  lastOp.op = "decode"
  => \A i \in DOMAIN lastOp.msgs : SameMessage(lastOp.msgs[i], lastOp.arg[1])

\* an extended remote FD message of 64 bytes with brs and esi went through
\* the codec with the echo bit set in its flags
C12_Witness ==
  /\ lastOp.op = "decode"
  /\ Len(lastOp.msgs) = 2
  /\ lastOp.arg[1].id = 536870911
  /\ lastOp.arg[1].isExtended /\ lastOp.arg[1].isRemote
  /\ lastOp.arg[1].brs /\ lastOp.arg[1].esi
  /\ Len(lastOp.arg[1].data) = 64
  /\ lastOp.calls[1].frames[1].frame.flags = 35
  /\ lastOp.msgs[1].data = lastOp.arg[1].data

\* C13: the frame of an extended message has bit 31 of id_and_flags set,
\* and decoding it gives the 29-bit id as a non-negative number and
\* is_extended = true, both when the word is carried as the negative signed
\* 32-bit value and when it is carried as an unsigned value.
C13_ExtendedId ==
  (lastOp.op = "decode" /\ lastOp.arg[1].isExtended)
  => LET word == lastOp.calls[1].frames[1].frame.can_id
     IN /\ word < 0
        /\ Uint32(word).hi >= 32768
        /\ Len(lastOp.msgs) = 2
        /\ \A i \in 1..2 : /\ lastOp.msgs[i].id = lastOp.arg[1].id
                            /\ lastOp.msgs[i].id >= 0
                            /\ lastOp.msgs[i].isExtended

\* the classic extended message with id 0x12345678 went through the codec
C13_Witness ==
  /\ lastOp.op = "decode"
  /\ lastOp.arg[1].id = 305419896
  /\ lastOp.arg[1].isExtended
  /\ ~CarriesFdField(lastOp.arg[1])
  /\ lastOp.calls[1].frames[1].frame.can_id = BitOr(305419896, EFF_FLAG)
  /\ lastOp.msgs[2].id = 305419896

\* a sequence of messages is in non-decreasing order of timestamp
NonDecreasing(msgs) ==
  \A i \in 1..(Len(msgs) - 1) : msgs[i].timestamp <= msgs[i + 1].timestamp

C15_AtMostMaxCount ==
  (lastOp.op = "receive" /\ lastOp.wasOpen)
  => Len(lastOp.msgs) <= lastOp.arg[1].maxCount

\* bit number b (0 = lowest) of the byte x is set
BitSet(x, b) == (x \div (2 ^ b)) % 2 = 1

\* the items of a list whose message carries an FD field (fd) or none, in
\* the order of the list
ItemsOfKind(items, fd) ==
  SelectSeq(items, LAMBDA it : CarriesFdField(it.message) = fd)

\* the control byte of a frame: __pad of a classic frame, flags of an FD one
ControlByte(frame) == IF "can_dlc" \in DOMAIN frame THEN frame.__pad ELSE frame.flags

\* the frame carries the queue bit (0x80), the echo bit (0x20) exactly when
\* echoOn, and the delay in the two reserved bytes, low byte first
QueueFrameOk(frame, delay, echoOn) ==
  /\ BitSet(ControlByte(frame), 7)
  /\ BitSet(ControlByte(frame), 5) <=> echoOn
  /\ frame.__res0 = delay % 256
  /\ frame.__res1 = delay \div 256

\* C16: every frame transmitQueue hands to the transport, for an item
\* with a delay in 0..65535, has the delayed-queue bit set in its control
\* byte (classic) or flags byte (FD), the echo bit set exactly when the
\* session's echo is not false, and the delay in the two reserved bytes,
\* low byte first.
C16_QueueOverlay ==
  (lastOp.op = "transmitQueue" /\ lastOp.wasOpen)
  => \A i \in DOMAIN lastOp.calls :
       LET call == lastOp.calls[i]
           items == ItemsOfKind(lastOp.arg, call.fn = "ZCAN_TransmitFD")
       IN /\ Len(call.frames) = Len(items)
          /\ \A j \in DOMAIN call.frames :
               QueueFrameOk(call.frames[j].frame, items[j].delay,
                            lastOp.echo # "false")

\* a classic item with delay 300 was queued on a session with echo on:
\* reserved bytes 0x2C and 0x01, control byte 0x80 | 0x20
C16_Witness ==
  /\ lastOp.op = "transmitQueue"
  /\ lastOp.wasOpen
  /\ lastOp.echo = "undefined"
  /\ Len(lastOp.arg) = 1
  /\ lastOp.arg[1].delay = 300
  /\ Len(lastOp.calls) = 1
  /\ lastOp.calls[1].fn = "ZCAN_Transmit"
  /\ lastOp.calls[1].frames[1].frame.__res0 = 44
  /\ lastOp.calls[1].frames[1].frame.__res1 = 1
  /\ lastOp.calls[1].frames[1].frame.__pad = 160

\* the frame q of a queue is the frame b of a batch with the queue bit
\* added to the control byte and the delay written to the reserved bytes
OverlayOf(q, b, delay) ==
  /\ q.transmit_type = b.transmit_type
  /\ q.frame.can_id = b.frame.can_id
  /\ ("can_dlc" \in DOMAIN q.frame) = ("can_dlc" \in DOMAIN b.frame)
  /\ (IF "can_dlc" \in DOMAIN q.frame
      THEN q.frame.can_dlc = b.frame.can_dlc
      ELSE q.frame.len = b.frame.len)
  /\ q.frame.data = b.frame.data
  /\ ControlByte(q.frame) = BitOr(ControlByte(b.frame), DELAY_SEND_FLAG)
  /\ BitAnd(ControlByte(q.frame), ControlByte(b.frame)) = ControlByte(b.frame)
  /\ \A bit \in 0..6 : BitSet(ControlByte(q.frame), bit)
                          <=> BitSet(ControlByte(b.frame), bit)
  /\ ~BitSet(ControlByte(b.frame), 7)
  /\ b.frame.__res0 = 0 /\ b.frame.__res1 = 0
  /\ q.frame.__res0 = delay % 256
  /\ q.frame.__res1 = delay \div 256

\* the queue call q made the bulk sends of the batch call b, frame for
\* frame, each frame with the overlay of its item
QueueMatchesBatch(q, b) ==
  /\ q.error = b.error
  /\ Len(q.calls) = Len(b.calls)
  /\ \A i \in DOMAIN q.calls :
       LET items == ItemsOfKind(q.arg, q.calls[i].fn = "ZCAN_TransmitFD")
       IN /\ q.calls[i].fn = b.calls[i].fn
          /\ q.calls[i].handle = b.calls[i].handle
          /\ Len(q.calls[i].frames) = Len(b.calls[i].frames)
          /\ Len(q.calls[i].frames) = Len(items)
          /\ \A j \in DOMAIN q.calls[i].frames :
               OverlayOf(q.calls[i].frames[j], b.calls[i].frames[j],
                         items[j].delay)

\* C20: when transmitQueue is given the messages a transmitBatch on the
\* same session was given, it makes the same bulk sends in the same order
\* with the same frames (id_and_flags, length, data, BRS/ESI and echo
\* bits), except that each frame has the delayed-queue bit added and
\* carries its item's delay in the reserved bytes; no bit of the base
\* encoding is cleared.
C20_QueueIsBatchPlusDelay ==
  [][ (/\ lastOp.op = "transmitBatch"
       /\ lastOp'.op = "transmitQueue"
       /\ lastOp'.wasOpen
       /\ lastOp'.dev = lastOp.dev /\ lastOp'.ch = lastOp.ch
       /\ lastOp'.echo = lastOp.echo
       /\ [i \in DOMAIN lastOp'.arg |-> lastOp'.arg[i].message] = lastOp.arg)
      => QueueMatchesBatch(lastOp', lastOp) ]_vars

\* a classic and an FD message with brs were queued after they had been
\* sent as a batch: one bulk send of each kind, the FD frame keeps its BRS
\* bit and has the queue bit
C20_Witness ==
  /\ lastOp.op = "transmitQueue"
  /\ lastOp.wasOpen
  /\ lastOp.error = "none"
  /\ Len(lastOp.arg) = 2
  /\ Len(lastOp.calls) = 2
  /\ lastOp.calls[1].fn = "ZCAN_Transmit"
  /\ lastOp.calls[2].fn = "ZCAN_TransmitFD"
  /\ BitSet(lastOp.calls[2].frames[1].frame.flags, 0)
  /\ BitSet(lastOp.calls[2].frames[1].frame.flags, 7)
  /\ lastOp.arg[2].delay = 65535

\* the get-property call of the method failed (null pointer)
GetValueFailed(op) ==
  /\ Len(op.calls) = 1
  /\ op.calls[1].fn = "ZCAN_GetValue"
  /\ op.calls[1].result = 0

\* C17: on an open session, getAutoSendData returns null (no message) and
\* throws nothing when the transport get-property call fails, whereas
\* getAutoSendCount throws the transport's error.
C17_DataSwallowsCountThrows ==
  /\ (lastOp.op = "getAutoSendData" /\ lastOp.wasOpen /\ GetValueFailed(lastOp))
     => (lastOp.error = "none" /\ lastOp.msgs = <<>>)
  /\ (lastOp.op = "getAutoSendCount" /\ lastOp.wasOpen /\ GetValueFailed(lastOp))
     => lastOp.error = "ZCAN_GetValue"

\* getAutoSendData ran on an open session, the get-property call failed
\* and the method returned
C17_Witness ==
  /\ lastOp.op = "getAutoSendData"
  /\ lastOp.wasOpen
  /\ GetValueFailed(lastOp)
  /\ lastOp.error = "none"

\* the frames of a call are FD frames (len, flags) or classic ones
\* (can_dlc)
FdFrames(frames) == \A j \in DOMAIN frames : "len" \in DOMAIN frames[j].frame

ClassicFrames(frames) == \A j \in DOMAIN frames : "can_dlc" \in DOMAIN frames[j].frame

\* every bulk send of the call log is of the kind of the messages it
\* carries: the FD send holds as many FD frames as ms has messages with an
\* FD field, the classic send as many classic frames as ms has others
RoutedByKind(calls, ms) ==
  \A i \in DOMAIN calls :
    IF calls[i].fn = "ZCAN_TransmitFD"
    THEN /\ Len(calls[i].frames) = Len(KindOf(ms, TRUE))
         /\ FdFrames(calls[i].frames)
    ELSE /\ calls[i].fn = "ZCAN_Transmit"
         /\ Len(calls[i].frames) = Len(KindOf(ms, FALSE))
         /\ ClassicFrames(calls[i].frames)

\* a bulk send was made for every kind that has a message
EveryKindSent(calls, ms) ==
  /\ Len(KindOf(ms, FALSE)) > 0 => CountCalls(calls, "ZCAN_Transmit") = 1
  /\ Len(KindOf(ms, TRUE)) > 0 => CountCalls(calls, "ZCAN_TransmitFD") = 1

\* C18: a message is handled as FD exactly when it carries the brs or the
\* esi field, whatever the value, and as classic otherwise: transmit,
\* transmitBatch and transmitQueue hand it to the bulk send of that kind
\* as a frame of that kind, and addAutoSend registers it in a structure
\* of that kind.
C18_KindByFieldPresence ==
  /\ (lastOp.op = "transmit" /\ lastOp.wasOpen)
     => /\ RoutedByKind(lastOp.calls, lastOp.arg)
        /\ lastOp.error # "RangeError" => EveryKindSent(lastOp.calls, lastOp.arg)
  /\ (lastOp.op = "transmitBatch" /\ lastOp.wasOpen)
     => /\ RoutedByKind(lastOp.calls, lastOp.arg)
        /\ lastOp.error = "none" => EveryKindSent(lastOp.calls, lastOp.arg)
  /\ (lastOp.op = "transmitQueue" /\ lastOp.wasOpen)
     => LET ms == [i \in DOMAIN lastOp.arg |-> lastOp.arg[i].message]
        IN /\ RoutedByKind(lastOp.calls, ms)
           /\ lastOp.error = "none" => EveryKindSent(lastOp.calls, ms)
  /\ (lastOp.op = "addAutoSend" /\ lastOp.wasOpen)
     => /\ Len(lastOp.calls) = 1
        /\ Len(lastOp.calls[1].obj) = 1
        /\ ("len" \in DOMAIN lastOp.calls[1].obj[1].obj.frame)
             <=> CarriesFdField(lastOp.arg[1].message)
        /\ ("can_dlc" \in DOMAIN lastOp.calls[1].obj[1].obj.frame)
             <=> ~CarriesFdField(lastOp.arg[1].message)

\* a message that carries esi = false and no brs was sent with the FD bulk
\* send
C18_Witness ==
  /\ lastOp.op = "transmit"
  /\ lastOp.wasOpen
  /\ lastOp.arg[1].hasEsi /\ ~lastOp.arg[1].esi /\ ~lastOp.arg[1].hasBrs
  /\ Len(lastOp.calls) = 1
  /\ lastOp.calls[1].fn = "ZCAN_TransmitFD"

\* the name of a step of open(): the property path of a set-property
\* call, else the DLL function
StepName(call) == IF call.fn = "ZCAN_SetValue" THEN call.path ELSE call.fn

\* the steps open() takes in order when the configured echo is e
OpenOrder(e) ==
  <<"ZCAN_OpenDevice", "0/ip", "0/work_port", "0/work_mode">>
  \o (IF e # "false" THEN <<"0/set_device_tx_echo">> ELSE <<>>)
  \o <<"0/canfd_exp", "0/protocol", "ZCAN_InitCAN", "ZCAN_StartCAN">>

\* the calls of open() before the rollback close, if any
OpenSteps(calls) ==
  SelectSeq(calls, LAMBDA c : c.fn # "ZCAN_CloseDevice")

\* C19: open() on a closed session issues its transport calls in the
\* order open_device, ip, work_port, work_mode, set_device_tx_echo (only
\* when the configured echo is not false), canfd_exp, protocol,
\* init_channel, start_channel; a successful open() issues all of them,
\* and no step is issued after one that failed.
C19_OpenOrder ==
  (lastOp.op = "open" /\ ~lastOp.wasOpen)
  => LET steps == OpenSteps(lastOp.calls)
         order == OpenOrder(lastOp.echo)
     IN /\ Len(steps) <= Len(order)
        /\ \A i \in DOMAIN steps : StepName(steps[i]) = order[i]
        /\ \A i \in 1..(Len(steps) - 1) : CallOk(steps[i])
        /\ lastOp.error = "none"
             => /\ Len(steps) = Len(order)
                /\ CallOk(steps[Len(steps)])
                /\ lastOp.calls = steps
        /\ (lastOp.error # "none" /\ Len(steps) > 0)
             => ~CallOk(steps[Len(steps)])

\* open() succeeded with echo left unset: nine calls, the fifth one sets
\* the echo property
C19_Witness ==
  /\ lastOp.op = "open"
  /\ ~lastOp.wasOpen
  /\ lastOp.echo = "undefined"
  /\ lastOp.error = "none"
  /\ Len(lastOp.calls) = 9
  /\ lastOp.calls[5].path = "0/set_device_tx_echo"
  /\ lastOp.calls[9].fn = "ZCAN_StartCAN"

(* ------------------------------------------------------------------ *)
(* Decoding of arbitrary received frames                               *)
(* ------------------------------------------------------------------ *)
\* the capacity of the frame structure of an envelope
CapacityOf(frame) ==
  IF "can_dlc" \in DOMAIN frame THEN CAN_MAX_DLEN ELSE CANFD_MAX_DLEN

\* the length field of a frame
LengthField(frame) ==
  IF "can_dlc" \in DOMAIN frame THEN frame.can_dlc ELSE frame.len

\* the bits of the word can_id, read off its unsigned value
WordBit31(canId) == Uint32(canId).hi >= 32768

WordBit30(canId) == (Uint32(canId).hi \div 16384) % 2 = 1

WordLow29(canId) == (Uint32(canId).hi % 8192) * 65536 + Uint32(canId).lo

WordLow11(canId) == Uint32(canId).lo % 2048

\* C21: for every 32-bit can_id word and every flags byte of a received
\* frame the decoded message has isExtended = bit 31, isRemote = bit 30,
\* id = the word under the 29-bit mask when extended and under the 11-bit
\* mask otherwise, so always within the range of its format, and for an
\* FD frame brs = bit 0 and esi = bit 1 of flags, whatever the echo and
\* delayed-queue bits are.
C21_DecodeBits ==
  lastOp.op = "fromZcan" =>
    LET frame == lastOp.arg[1].frame
        m == lastOp.msgs[1]
    IN /\ m.isExtended = WordBit31(frame.can_id)
       /\ m.isRemote = WordBit30(frame.can_id)
       /\ m.id = IF WordBit31(frame.can_id) THEN WordLow29(frame.can_id)
                                             ELSE WordLow11(frame.can_id)
       /\ m.id \in 0..(IF m.isExtended THEN EFF_MASK ELSE SFF_MASK)
       /\ "flags" \in DOMAIN frame =>
            /\ m.brs = BitSet(frame.flags, 0)
            /\ m.esi = BitSet(frame.flags, 1)

\* an FD frame in standard format whose word has bits above bit 10 and
\* bit 29 set and whose flags carry BRS with the echo and delayed-queue
\* bits has been decoded
C21_Witness ==
  /\ lastOp.op = "fromZcan"
  /\ "flags" \in DOMAIN lastOp.arg[1].frame
  /\ lastOp.arg[1].frame.flags = ECHO_FLAG + DELAY_SEND_FLAG + CANFD_BRS
  /\ lastOp.arg[1].frame.can_id = 305419896 + 536870912 + 1073741824
  /\ lastOp.msgs[1].brs
  /\ ~lastOp.msgs[1].esi
  /\ ~lastOp.msgs[1].isExtended
  /\ lastOp.msgs[1].isRemote
  /\ lastOp.msgs[1].id = 305419896 % 2048

\* C22: the payload decoded from a received frame, also from one whose
\* length field exceeds the capacity of the frame, has exactly
\* min(length, capacity) bytes, 8 for classic and 64 for FD, and they are
\* the first bytes of the data array.
C22_PayloadClamped ==
  lastOp.op = "fromZcan" =>
    LET frame == lastOp.arg[1].frame
        m == lastOp.msgs[1]
        k == Min(LengthField(frame), CapacityOf(frame))
    IN /\ Len(frame.data) = CapacityOf(frame)
       /\ Len(m.data) = k
       /\ \A i \in 1..k : m.data[i] = frame.data[i]

\* an FD frame that declares 200 bytes has been decoded to the 64 bytes
\* of its data array
C22_Witness ==
  /\ lastOp.op = "fromZcan"
  /\ LengthField(lastOp.arg[1].frame) = 200
  /\ Len(lastOp.msgs[1].data) = CapacityOf(lastOp.arg[1].frame)
  /\ "flags" \in DOMAIN lastOp.arg[1].frame

(* ------------------------------------------------------------------ *)
(* Frames handed to the transport                                      *)
(* ------------------------------------------------------------------ *)
\* the methods that hand frames to the transport
SendingOps == {"transmit", "transmitBatch", "transmitQueue", "addAutoSend"}

\* the messages a sending method was given, in order
SentMessages(op) ==
  IF op.op = "transmitQueue" THEN [i \in 1..Len(op.arg) |-> op.arg[i].message]
  ELSE IF op.op = "addAutoSend" THEN <<op.arg[1].message>>
  ELSE op.arg

\* the frames a transport call was handed: the frames of a bulk send, the
\* frame embedded in an auto-send structure
FramesOfCall(c) ==
  IF c.fn \in {"ZCAN_Transmit", "ZCAN_TransmitFD"}
  THEN [i \in 1..Len(c.frames) |-> c.frames[i].frame]
  ELSE IF c.fn = "ZCAN_SetValue" /\ c.obj # <<>>
  THEN <<c.obj[1].obj.frame>>
  ELSE <<>>

\* the frame is the one made of message m, cut to the capacity of its kind
CutFrameOf(frame, m) ==
  /\ ("flags" \in DOMAIN frame) = CarriesFdField(m)
  /\ LengthField(frame) = CapacityOf(frame)
  /\ frame.data = SubSeq(m.data, 1, CapacityOf(frame))

\* C23: on every sending path a message whose payload is longer than the
\* capacity of its kind is either rejected with an error before anything
\* reaches the transport or sent with length field and data both cut to
\* the capacity; no frame handed to the transport declares a length
\* greater than its capacity.
C23_OversizeRejectedOrCut ==
  (lastOp.op \in SendingOps /\ lastOp.wasOpen) =>
    /\ \A c \in 1..Len(lastOp.calls) :
         \A i \in 1..Len(FramesOfCall(lastOp.calls[c])) :
           LET frame == FramesOfCall(lastOp.calls[c])[i]
           IN LengthField(frame) <= CapacityOf(frame)
    /\ \A k \in 1..Len(SentMessages(lastOp)) :
         LET m == SentMessages(lastOp)[k]
         IN ~FitsFrame(m) =>
              \/ lastOp.error # "none" /\ lastOp.calls = <<>>
              \/ \E c \in 1..Len(lastOp.calls) :
                   \E i \in 1..Len(FramesOfCall(lastOp.calls[c])) :
                     CutFrameOf(FramesOfCall(lastOp.calls[c])[i], m)

(* ------------------------------------------------------------------ *)
(* Merging and reading single buffers                                  *)
(* ------------------------------------------------------------------ *)
\* the messages decoded from the envelopes a receive call delivered
DecodedOf(c) ==
  [i \in 1..Len(c.frames) |->
     IF c.fn = "ZCAN_Receive" THEN fromZcanReceiveData(c.frames[i])
                              ELSE fromZcanReceiveFdData(c.frames[i])]

\* the messages of sequence s that carry timestamp t, in order
AtTimestamp(s, t) == SelectSeq(s, LAMBDA m : m.timestamp = t)

\* r is s sorted by timestamp with ties left in the order of s: as long
\* as s, non-decreasing, and holding for each timestamp the messages of s
\* with that timestamp in the order of s
StablySorted(r, s) ==
  /\ Len(r) = Len(s)
  /\ NonDecreasing(r)
  /\ \A k \in 1..Len(s) :
       AtTimestamp(r, s[k].timestamp) = AtTimestamp(s, s[k].timestamp)

C25_SingleKind ==
  (lastOp.op = "receive" /\ lastOp.wasOpen /\ lastOp.arg[1].type # "all")
  => LET fd == lastOp.arg[1].type = "canfd"
     IN /\ Len(lastOp.calls) = 1
        /\ lastOp.calls[1].fn = (IF fd THEN "ZCAN_ReceiveFD" ELSE "ZCAN_Receive")
        /\ lastOp.calls[1].handle = lastOp.ch
        /\ lastOp.error = "none"
        /\ lastOp.msgs = DecodedOf(lastOp.calls[1])
        /\ \A i \in 1..Len(lastOp.msgs) :
             /\ lastOp.msgs[i].timestamp = lastOp.calls[1].frames[i].timestamp
             /\ ("brs" \in DOMAIN lastOp.msgs[i]) = fd
             /\ ("esi" \in DOMAIN lastOp.msgs[i]) = fd

\* the FD buffer alone was read, it delivered a later envelope in front
\* of an earlier one, and the two messages came back in that order
C25_Witness ==
  /\ lastOp.op = "receive"
  /\ lastOp.wasOpen
  /\ lastOp.arg[1].type = "canfd"
  /\ Len(lastOp.calls) = 1
  /\ Len(lastOp.msgs) = 2
  /\ lastOp.msgs[1].timestamp > lastOp.msgs[2].timestamp
  /\ "esi" \in DOMAIN lastOp.msgs[2]

(* ------------------------------------------------------------------ *)
(* Auto-send entries and the echo bit                                  *)
(* ------------------------------------------------------------------ *)
\* the frame carries message m: the frame structure of its kind, the id
\* with bit 31 for extended and bit 30 for remote, the length of a
\* payload that fits, and the payload in a data array of the capacity,
\* filled up with zeros
FrameOfMessage(frame, m) ==
  /\ ("flags" \in DOMAIN frame) = CarriesFdField(m)
  /\ Uint32(frame.can_id).hi =
       (m.id \div 65536) + (IF m.isExtended THEN 32768 ELSE 0)
                         + (IF m.isRemote THEN 16384 ELSE 0)
  /\ Uint32(frame.can_id).lo = m.id % 65536
  /\ FitsFrame(m) => LengthField(frame) = Len(m.data)
  /\ Len(frame.data) = CapacityOf(frame)
  /\ \A i \in 1..CapacityOf(frame) :
       frame.data[i] = (IF i <= Len(m.data) THEN m.data[i] ELSE 0)

\* C26: addAutoSend on an open session makes exactly one set-property
\* call, on the device handle and at the path '0/auto_send' whatever the
\* slot index and the kind; the structure handed over carries index and
\* interval unchanged, enable as 1 or 0, and as its envelope the classic
\* or FD encoding of the message, by its kind, with the normal transmit
\* type.
C26_AutoSendEntry ==
  (lastOp.op = "addAutoSend" /\ lastOp.wasOpen) =>
    LET config == lastOp.arg[1]
    IN /\ Len(lastOp.calls) = 1
       /\ lastOp.calls[1].fn = "ZCAN_SetValue"
       /\ lastOp.calls[1].handle = lastOp.dev
       /\ lastOp.calls[1].path = "0/auto_send"
       /\ Len(lastOp.calls[1].obj) = 1
       /\ lastOp.calls[1].obj[1].index = config.index
       /\ lastOp.calls[1].obj[1].interval = config.interval
       /\ lastOp.calls[1].obj[1].enable = (IF config.enable THEN 1 ELSE 0)
       /\ lastOp.calls[1].obj[1].obj.transmit_type = TRANSMIT_NORMAL
       /\ FrameOfMessage(lastOp.calls[1].obj[1].obj.frame, config.message)
       /\ (lastOp.error = "none") = (lastOp.calls[1].result = STATUS_OK)

\* a disabled entry for slot 2 with an extended FD message was handed
\* over at '0/auto_send' and accepted
C26_Witness ==
  /\ lastOp.op = "addAutoSend"
  /\ lastOp.wasOpen
  /\ lastOp.arg[1].index = 2
  /\ ~lastOp.arg[1].enable
  /\ lastOp.arg[1].interval = 65535
  /\ lastOp.arg[1].message.isExtended
  /\ CarriesFdField(lastOp.arg[1].message)
  /\ lastOp.error = "none"
  /\ Len(lastOp.calls) = 1
  /\ lastOp.calls[1].path = "0/auto_send"
  /\ lastOp.calls[1].obj[1].enable = 0
  /\ lastOp.calls[1].obj[1].index = 2

\* the control byte a frame of message m carries when the echo bit is
\* set (e) or clear: __pad holds nothing else, flags hold BRS and ESI of m
\* besides
ControlOf(m, e) ==
  (IF e THEN ECHO_FLAG ELSE 0)
  + (IF CarriesFdField(m) /\ m.brs THEN CANFD_BRS ELSE 0)
  + (IF CarriesFdField(m) /\ m.esi THEN CANFD_ESI ELSE 0)

\* every frame of call c has the control byte of the message it was made
\* of, the messages of the call being list, with the echo bit as e says
ControlBytesOf(c, list, e) ==
  /\ Len(FramesOfCall(c)) = Len(list)
  /\ \A i \in 1..Len(list) :
       /\ ControlByte(FramesOfCall(c)[i]) = ControlOf(list[i], e)
       /\ BitSet(ControlByte(FramesOfCall(c)[i]), 5) = e

\* C27: every frame sent by transmit, transmitBatch and addAutoSend has
\* the echo bit, bit 5 of the control byte of a classic frame and of the
\* flags of an FD frame, set exactly when the configured echo option is
\* not false (so also when it is absent), whatever the fields of the
\* message, and the BRS and ESI bits beside it are those of the message.
C27_EchoBit ==
  (lastOp.op \in {"transmit", "transmitBatch", "addAutoSend"} /\ lastOp.wasOpen)
  => \A c \in 1..Len(lastOp.calls) :
       LET call == lastOp.calls[c]
           fd == call.fn = "ZCAN_TransmitFD"
                 \/ (call.fn = "ZCAN_SetValue"
                     /\ CarriesFdField(SentMessages(lastOp)[1]))
       IN ControlBytesOf(call, KindOf(SentMessages(lastOp), fd),
                         lastOp.echo # "false")

\* a batch of a classic message and an FD message with BRS was sent on a
\* session configured without the echo option, and both frames carry the
\* echo bit
C27_Witness ==
  /\ lastOp.op = "transmitBatch"
  /\ lastOp.wasOpen
  /\ lastOp.echo = "undefined"
  /\ Len(lastOp.calls) = 2
  /\ Len(lastOp.calls[1].frames) = 1
  /\ Len(lastOp.calls[2].frames) = 1
  /\ lastOp.calls[1].frames[1].frame.__pad = ECHO_FLAG
  /\ lastOp.calls[2].frames[1].frame.flags = ECHO_FLAG + CANFD_BRS

(* ------------------------------------------------------------------ *)
(* Lengths of FD frames                                                *)
(* ------------------------------------------------------------------ *)
\* the payload lengths a CAN FD frame can have
FdValidLengths == (0..8) \cup {12, 16, 20, 24, 32, 48, 64}

\* C28: every FD frame handed to the transport has a length field that
\* is one of 0..8, 12, 16, 20, 24, 32, 48, 64: a payload of another
\* length is padded or cut to such a length or rejected, and the length
\* never exceeds 64.
C28_FdLengthValid ==
  \A c \in 1..Len(lastOp.calls) :
    \A i \in 1..Len(FramesOfCall(lastOp.calls[c])) :
      LET frame == FramesOfCall(lastOp.calls[c])[i]
      IN "flags" \in DOMAIN frame => frame.len \in FdValidLengths

(* ------------------------------------------------------------------ *)
(* Device handles over the life of a session                           *)
(* ------------------------------------------------------------------ *)
\* C29: over any sequence of open() and close() calls, with the transport
\* granting or failing any step, every successful ZCAN_OpenDevice call is
\* followed by at most one ZCAN_CloseDevice call for the handle it
\* returned, ZCAN_CloseDevice is never called without such a call before
\* it, and whenever the session is closed between two calls there have
\* been as many ZCAN_CloseDevice calls as successful ZCAN_OpenDevice
\* calls.
C29_HandlesBalanced ==
  /\ lastOp.ledger.sound
  /\ \A h \in Handles : lastOp.ledger.bal[h] \in {0, 1}
  /\ ~isOpen => \A h \in Handles : lastOp.ledger.bal[h] = 0

\* a session that had been opened and closed before was opened again, the
\* device opened, a later step failed and the rollback's
\* ZCAN_CloseDevice failed too: the session is closed and the handle's
\* balance is back to 0
C29_Witness ==
  /\ lastOp.op = "open"
  /\ lastOp.life = "closed"
  /\ lastOp.error # "none"
  /\ Len(lastOp.calls) >= 2
  /\ lastOp.calls[1].fn = "ZCAN_OpenDevice"
  /\ lastOp.calls[1].result # INVALID_DEVICE_HANDLE
  /\ lastOp.calls[Len(lastOp.calls)].fn = "ZCAN_CloseDevice"
  /\ lastOp.calls[Len(lastOp.calls)].handle = lastOp.calls[1].result
  /\ lastOp.calls[Len(lastOp.calls)].result = STATUS_ERR
  /\ ~isOpen
  /\ lastOp.ledger.bal[lastOp.calls[1].result] = 0
  /\ lastOp.ledger.sound

(* ------------------------------------------------------------------ *)
(* Order of the bulk sends of a mixed list                             *)
(* ------------------------------------------------------------------ *)
\* the list holds messages of both kinds
Mixed(ms) == KindOf(ms, FALSE) # <<>> /\ KindOf(ms, TRUE) # <<>>

\* the calls are one classic bulk send and then one FD bulk send, with as
\* many frames as ms has messages of the kind
ClassicThenFd(calls, ms) ==
  /\ Len(calls) = 2
  /\ calls[1].fn = "ZCAN_Transmit"
  /\ Len(calls[1].frames) = Len(KindOf(ms, FALSE))
  /\ calls[2].fn = "ZCAN_TransmitFD"
  /\ Len(calls[2].frames) = Len(KindOf(ms, TRUE))

\* C30 as claimed: for every mixed list given to transmitBatch or
\* transmitQueue the classic bulk send is issued and then the FD bulk
\* send, also when the classic one accepted fewer frames than submitted.
C30_Original ==
  (lastOp.op \in {"transmitBatch", "transmitQueue"} /\ lastOp.wasOpen
   /\ Mixed(SentMessages(lastOp)))
  => ClassicThenFd(lastOp.calls, SentMessages(lastOp))

\* C30: for a mixed list given to transmitBatch or transmitQueue whose
\* payloads all fit their frames, the classic bulk send is issued first
\* and the FD bulk send second, whatever the interleaving of the kinds in
\* the list and whatever number of frames the classic send accepted, each
\* holding the frames of its kind; with a classic payload above 8 bytes
\* no call is made, with only an FD payload above 64 bytes the classic
\* send is made alone, and the method fails with a RangeError.
C30_ClassicBeforeFd ==
  (lastOp.op \in {"transmitBatch", "transmitQueue"} /\ lastOp.wasOpen
   /\ Mixed(SentMessages(lastOp)))
  => IF AllFit(SentMessages(lastOp))
     THEN /\ ClassicThenFd(lastOp.calls, SentMessages(lastOp))
          /\ lastOp.error = "none"
     ELSE /\ lastOp.error = "RangeError"
          /\ IF AllFit(KindOf(SentMessages(lastOp), FALSE))
             THEN /\ Len(lastOp.calls) = 1
                  /\ lastOp.calls[1].fn = "ZCAN_Transmit"
             ELSE lastOp.calls = <<>>

\* a queue that names an FD message in front of two classic ones was
\* sent: the classic send went first and accepted one frame of two, and
\* the FD send followed
C30_Witness ==
  /\ lastOp.op = "transmitQueue"
  /\ lastOp.wasOpen
  /\ Len(lastOp.arg) = 3
  /\ CarriesFdField(lastOp.arg[1].message)
  /\ ~CarriesFdField(lastOp.arg[2].message)
  /\ ~CarriesFdField(lastOp.arg[3].message)
  /\ Len(lastOp.calls) = 2
  /\ lastOp.calls[1].fn = "ZCAN_Transmit"
  /\ Len(lastOp.calls[1].frames) = 2
  /\ lastOp.calls[1].result = 1
  /\ lastOp.calls[2].fn = "ZCAN_TransmitFD"
  /\ lastOp.calls[2].result = 1

====
